---- MODULE Spec2Model ----
(***************************************************************************)
(* Integrity pipeline of the Open Rate Card library: canonical JSON,       *)
(* SHA-256 checksums (checksum.ts) and RSA/ECDSA signatures (signing.ts).  *)
(*                                                                         *)
(* Texts (JavaScript strings) are sequences of tokens; a token is a TLA+   *)
(* string standing for one or more characters.  JavaScript values are      *)
(* nodes [k, s, e]: k is the kind ("str", "lit", "obj", "arr", ...), s the *)
(* text of a string or literal, e the entries <<key, node>> of an object   *)
(* in insertion order (the elements of an array, with key "").             *)
(***************************************************************************)
EXTENDS Integers, Sequences, FiniteSets, TLC

\* doc     the caller's working copy of the document
\* ref     the copy as it was received or as the last operation returned it
\* origin  how ref was made: "init", "addChecksum" or "signDocument"
\* keys    the key pairs generated so far
\* canon   the results of createCanonicalJson on ref and on doc
\* sumRes  the result of the last verifyChecksum(doc)
\* sigRes  the result of the last verifySignature(doc, publicKey)
\* tampers the number of edits made to doc since ref was checksummed or signed
\* signer  the key pair and the options ref was signed with
\* atob    whether the platform has a global atob function
\* heap    the objects that exist, by address: the caller's document and what
\*         the calls made so far have allocated
\* calls   the calls made so far, in flight or returned
\* last    the call that returned the working copy: the operation, its
\*         arguments and what it returned; none once the caller has edited
\*         the copy
\* clock   the time new Date() returns, in hours since the epoch
\* certs   the generateCertificate calls made so far: the options, the time
\*         of the call and what it returned
\* pemIo   the last byte sequence exported as PEM text, and what importing
\*         the text gave back
\* util    the last call of a function of the utilities: its name, its
\*         arguments and its result
VARIABLES doc, ref, origin, keys, canon, sumRes, sigRes, tampers, signer, atob,
          heap, calls, last, clock, certs, pemIo, util

vars == <<doc, ref, origin, keys, canon, sumRes, sigRes, tampers, signer, atob,
          heap, calls, last, clock, certs, pemIo, util>>

\* the state of the document operations, and the state of the functions that
\* take no document
docs == <<doc, ref, origin, canon, sumRes, sigRes, tampers, signer, atob,
          heap, calls, last>>
lib == <<clock, certs, pemIo, util>>

(***************************************************************************)
(* Bounds                                                                  *)
(***************************************************************************)
MaxKeys == 2
\* the time of the first call, in hours since 1970-01-01T00:00:00Z, and the
\* hours that pass while the model runs
Start == 490000
MaxHours == 1
\* edits explored on a document after it was checksummed or signed
MaxTampers == 1

(***************************************************************************)
(* Small helpers on sequences                                              *)
(***************************************************************************)
Range(f) == {f[i] : i \in DOMAIN f}

\* const v = ...; F(v)
Let(v, F(_)) == F(v)

RECURSIVE Flatten(_)
\* the characters of a text, as one token
Flatten(t) ==
  CASE Len(t) = 0 -> ""
    [] Len(t) = 1 -> t[1]
    [] OTHER -> Flatten(SubSeq(t, 1, Len(t) \div 2))
                  \o Flatten(SubSeq(t, Len(t) \div 2 + 1, Len(t)))

Reverse(sq) == [i \in 1..Len(sq) |-> sq[Len(sq) + 1 - i]]

(***************************************************************************)
(* JavaScript values                                                       *)
(***************************************************************************)
Str(t) == [k |-> "str", s |-> t, e |-> <<>>]
Lit(tok) == [k |-> "lit", s |-> <<tok>>, e |-> <<>>]
Obj(es) == [k |-> "obj", s |-> <<>>, e |-> es]
Arr(ns) == [k |-> "arr", s |-> <<>>, e |-> [i \in 1..Len(ns) |-> <<"", ns[i]>>]]
\* the value of a property that is not there, and of a failed lookup
Undefined == [k |-> "undef", s |-> <<>>, e |-> <<>>]
Null == Lit("null")
\* the numbers that are not finite
NonFinite == {"NaN", "Infinity", "-Infinity"}
\* a function, and a property whose value is the document that holds it
Function == [k |-> "fun", s |-> <<>>, e |-> <<>>]
Cycle == [k |-> "cycle", s |-> <<>>, e |-> <<>>]

HasKey(es, key) == \E i \in 1..Len(es) : es[i][1] = key
KeyIndex(es, key) == CHOOSE i \in 1..Len(es) : es[i][1] = key
\* obj[key]
Get(node, key) ==
  IF node.k = "obj" /\ HasKey(node.e, key)
    THEN node.e[KeyIndex(node.e, key)][2]
    ELSE Undefined
\* obj[key] = val: an existing key keeps its place, a new one goes last
SetEntry(es, key, val) ==
  IF HasKey(es, key)
    THEN [es EXCEPT ![KeyIndex(es, key)] = <<key, val>>]
    ELSE Append(es, <<key, val>>)
\* obj.key = val
SetTop(d, key, val) == [d EXCEPT !.e = SetEntry(d.e, key, val)]
\* delete obj[key]
DeleteEntry(es, key) == SelectSeq(es, LAMBDA en : en[1] # key)
\* ToBoolean(value)
Truthy(node) ==
  CASE node.k = "undef" -> FALSE
    [] node.k = "str" -> node.s # <<>>
    [] node.k = "lit" -> node.s \notin {<<"null">>, <<"false">>, <<"0">>, <<"NaN">>}
    [] OTHER -> TRUE

(***************************************************************************)
(* JSON.stringify and JSON.parse over token texts                         *)
(***************************************************************************)
Q == "\""
BS == "\\"
EscQ == "\\\""
EscBS == "\\\\"
NL == "\n"
EscNL == "\\n"
NumTokens == {"0", "1", "2"}
LitTokens == {"null", "true", "false"} \cup NumTokens
Punct == {"{", "}", "[", "]", ":", ","}

\* the characters of a string literal: quote, backslash and line feed are
\* written as escapes
Escape(t) ==
  [i \in 1..Len(t) |->
     CASE t[i] = Q -> EscQ
       [] t[i] = BS -> EscBS
       [] t[i] = NL -> EscNL
       [] OTHER -> t[i]]
Unescape(c) ==
  CASE c = EscQ -> Q
    [] c = EscBS -> BS
    [] c = EscNL -> NL
    [] OTHER -> c

Quote(t) == <<Q>> \o Escape(t) \o <<Q>>

RECURSIVE JsonStringify(_)
RECURSIVE StringifyEntries(_, _)
\* JSON.stringify(node), for a value without cycles: properties whose
\* value is undefined or a function are left out; such an array element,
\* and a number that is not finite, is written as null
JsonStringify(node) ==
  CASE node.k = "str" -> Quote(node.s)
    [] node.k = "lit" -> IF node.s[1] \in NonFinite THEN <<"null">> ELSE node.s
    [] node.k = "obj" ->
         <<"{">> \o StringifyEntries(SelectSeq(node.e,
                                               LAMBDA en : en[2].k \notin {"undef", "fun"}),
                                     TRUE)
                 \o <<"}">>
    [] node.k = "arr" -> <<"[">> \o StringifyEntries(node.e, FALSE) \o <<"]">>
    [] OTHER -> <<"null">>
StringifyEntries(es, named) ==
  IF es = <<>> THEN <<>>
  ELSE (IF named THEN Quote(<<es[1][1]>>) \o <<":">> ELSE <<>>)
       \o JsonStringify(es[1][2])
       \o (IF Len(es) > 1 THEN <<",">> ELSE <<>>)
       \o StringifyEntries(Tail(es), named)

\* Parser results: [ok, v, i] where i is the position after the value
PFail == [ok |-> FALSE, v |-> Undefined, i |-> 0]
POk(v, i) == [ok |-> TRUE, v |-> v, i |-> i]
Tok(t, i) == IF i \in 1..Len(t) THEN t[i] ELSE "<eof>"

\* the characters of a string literal, from position i to the closing
\* quote; a bare backslash or line feed before it is a syntax error
ParseChars(t, i) ==
  Let({j \in i..Len(t) : t[j] \in {Q, BS, NL}}, LAMBDA stops :
    IF stops = {} THEN PFail
    ELSE Let(CHOOSE j \in stops : \A k \in stops : j <= k, LAMBDA close :
      IF t[close] # Q THEN PFail
      ELSE POk(Str([k \in 1..(close - i) |-> Unescape(t[i + k - 1])]), close + 1)))

RECURSIVE ParseValue(_, _)
RECURSIVE ParseMembers(_, _, _)
RECURSIVE ParseElements(_, _, _)
ParseValue(t, i) ==
  LET c == Tok(t, i) IN
  CASE c = Q -> ParseChars(t, i + 1)
    [] c \in LitTokens -> POk(Lit(c), i + 1)
    [] c = "{" -> IF Tok(t, i + 1) = "}" THEN POk(Obj(<<>>), i + 2)
                  ELSE ParseMembers(t, i + 1, <<>>)
    [] c = "[" -> IF Tok(t, i + 1) = "]" THEN POk(Arr(<<>>), i + 2)
                  ELSE ParseElements(t, i + 1, <<>>)
    [] OTHER -> PFail
\* "key": value pairs up to the closing brace; a repeated key keeps its
\* first place and takes the last value
ParseMembers(t, i, acc) ==
  IF Tok(t, i) # Q THEN PFail
  ELSE LET key == ParseChars(t, i + 1) IN
    IF ~key.ok \/ Tok(t, key.i) # ":" THEN PFail
    ELSE LET val == ParseValue(t, key.i + 1) IN
      IF ~val.ok THEN PFail
      ELSE LET acc2 == SetEntry(acc, Flatten(key.v.s), val.v) IN
        CASE Tok(t, val.i) = "," -> ParseMembers(t, val.i + 1, acc2)
          [] Tok(t, val.i) = "}" -> POk(Obj(acc2), val.i + 1)
          [] OTHER -> PFail
ParseElements(t, i, acc) ==
  LET val == ParseValue(t, i) IN
  IF ~val.ok THEN PFail
  ELSE LET acc2 == Append(acc, val.v) IN
    CASE Tok(t, val.i) = "," -> ParseElements(t, val.i + 1, acc2)
      [] Tok(t, val.i) = "]" -> POk(Arr(acc2), val.i + 1)
      [] OTHER -> PFail

\* JSON.parse(text): ok = FALSE stands for the SyntaxError it throws
JsonParse(t) ==
  LET r == ParseValue(t, 1) IN
  IF r.ok /\ r.i = Len(t) + 1 THEN r ELSE PFail

\* JSON.parse(JSON.stringify(value))
JsonClone(node) == JsonParse(JsonStringify(node)).v

(***************************************************************************)
(* checksum.ts: canonical form and SHA-256 checksum                        *)
(***************************************************************************)
\* Object keys of the model in UTF-16 code-unit order, the order RFC 8785
\* sorts properties in
KeyOrder == <<"algorithm", "cards", "checksum", "currency", "keyId", "metadata",
              "name", "notes", "publicKey", "signature", "tags", "timestamp">>
KeyRank(key) == CHOOSE i \in 1..Len(KeyOrder) : KeyOrder[i] = key

\* SortEntries that leaves the properties in insertion order
SortEntriesUnsorted(es) == es

RECURSIVE SortEntries(_)
\* entries by ascending key (selection of the least key first)
SortEntries(es) ==
  IF es = <<>> THEN <<>>
  ELSE LET m == CHOOSE i \in 1..Len(es) :
                  \A j \in 1..Len(es) : KeyRank(es[i][1]) <= KeyRank(es[j][1])
       IN <<es[m]>> \o SortEntries([j \in 1..(Len(es) - 1) |->
                                      IF j < m THEN es[j] ELSE es[j + 1]])

RECURSIVE SortKeysDeep(_)
SortKeysDeep(node) ==
  CASE node.k = "obj" ->
         Obj(SortEntries([i \in 1..Len(node.e) |->
                            <<node.e[i][1], SortKeysDeep(node.e[i][2])>>]))
    [] node.k = "arr" ->
         [node EXCEPT !.e = [i \in 1..Len(node.e) |->
                               <<"", SortKeysDeep(node.e[i][2])>>]]
    [] OTHER -> node

\* canonicalize(value) of the RFC 8785 package: properties sorted at every
\* depth, arrays in their own order, no white space
Canonicalize(node) == JsonStringify(SortKeysDeep(node))

\* Object.keys(value).length
NumKeys(node) ==
  CASE node.k \in {"obj", "arr"} -> Len(node.e)
    [] node.k = "str" -> Len(node.s)
    [] OTHER -> 0

\* delete value[key]; nothing happens on a value that is not an object
Delete(node, key) ==
  IF node.k = "obj" THEN [node EXCEPT !.e = DeleteEntry(node.e, key)] ELSE node

\* createCanonicalJson that strips the signature but not the checksum
CreateCanonicalJsonKeepsChecksum(d) ==
  Let(JsonClone(d), LAMBDA docCopy :
  Let(Get(docCopy, "metadata"), LAMBDA md :
  Let(Delete(md, "signature"), LAMBDA stripped :
    Canonicalize(
      IF ~Truthy(md) THEN docCopy
      ELSE IF NumKeys(stripped) = 0 THEN Delete(docCopy, "metadata")
      ELSE [docCopy EXCEPT !.e = SetEntry(docCopy.e, "metadata", stripped)]))))

\* createCanonicalJson that keeps a metadata object it has emptied
CreateCanonicalJsonKeepsEmpty(d) ==
  Let(JsonClone(d), LAMBDA docCopy :
  Let(Get(docCopy, "metadata"), LAMBDA md :
  Let(Delete(Delete(md, "checksum"), "signature"), LAMBDA stripped :
    Canonicalize(
      IF ~Truthy(md) THEN docCopy
      ELSE [docCopy EXCEPT !.e = SetEntry(docCopy.e, "metadata", stripped)]))))

\* createCanonicalJson that removes the whole metadata object
CreateCanonicalJsonDropsMetadata(d) ==
  Canonicalize(Delete(JsonClone(d), "metadata"))

\* createCanonicalJson(doc) for a document object
CreateCanonicalJson(d) ==
  Let(JsonClone(d), LAMBDA docCopy :
  Let(Get(docCopy, "metadata"), LAMBDA md :
  Let(Delete(Delete(md, "checksum"), "signature"), LAMBDA stripped :
    Canonicalize(
      IF ~Truthy(md) THEN docCopy
      ELSE IF NumKeys(stripped) = 0 THEN Delete(docCopy, "metadata")
      ELSE [docCopy EXCEPT !.e = SetEntry(docCopy.e, "metadata", stripped)]))))

RECURSIVE Circular(_)
\* the value refers to itself: JSON.stringify throws a TypeError
Circular(node) ==
  \/ node.k = "cycle"
  \/ \E i \in 1..Len(node.e) : Circular(node.e[i][2])

\* createCanonicalJson(doc) for any value: [ok, text]; ok = FALSE when it
\* throws: JSON.stringify on a cycle, JSON.parse on the undefined that
\* JSON.stringify returns for a function, and the check of canonical
CreateCanonicalJsonResult(d) ==
  IF Circular(d) \/ d.k \in {"undef", "fun"} THEN [ok |-> FALSE, text |-> <<>>]
  ELSE Let(CreateCanonicalJson(d), LAMBDA canonical :
         IF canonical = <<>> THEN [ok |-> FALSE, text |-> <<>>]
         ELSE [ok |-> TRUE, text |-> canonical])

\* sha256(data): the hex digest of a text, one token that names the
\* characters it was computed from (a digest without collisions)
Sha256(data) == <<"sha256:" \o Flatten(data)>>

\* typeof doc === 'string' ? JSON.parse(doc) : doc
ParseInput(d) == IF d.k = "str" THEN JsonParse(d.s) ELSE POk(d, 0)

\* calculateChecksum that hashes the document as it is, integrity fields
\* included
CalculateChecksumRaw(d) ==
  Let(ParseInput(d), LAMBDA document :
    IF ~document.ok THEN [ok |-> FALSE, text |-> <<>>]
    ELSE [ok |-> TRUE, text |-> Sha256(JsonStringify(document.v))])

\* calculateChecksum(doc): [ok, text]; ok = FALSE when JSON.parse throws
CalculateChecksum(d) ==
  Let(ParseInput(d), LAMBDA document :
    IF ~document.ok THEN [ok |-> FALSE, text |-> <<>>]
    ELSE [ok |-> TRUE, text |-> Sha256(CreateCanonicalJson(document.v))])

\* an object literal that leaves the spread out
SpreadNothing(node) == <<>>

\* { ...value }
Spread(node) ==
  CASE node.k = "obj" -> node.e
    [] node.k = "arr" -> [i \in 1..Len(node.e) |-> <<ToString(i - 1), node.e[i][2]>>]
    [] node.k = "str" -> [i \in 1..Len(node.s) |-> <<ToString(i - 1), Str(<<node.s[i]>>)>>]
    [] OTHER -> <<>>

\* typeof doc === 'string' ? JSON.parse(doc) : JSON.parse(JSON.stringify(doc))
CopyInput(d) == IF d.k = "str" THEN JsonParse(d.s) ELSE POk(JsonClone(d), 0)

\* addChecksum(doc): [ok, v]
AddChecksum(d) ==
  Let(CopyInput(d), LAMBDA document :
    IF ~document.ok THEN [ok |-> FALSE, v |-> Undefined]
    ELSE Let(CalculateChecksum(document.v), LAMBDA checksum :
      [ok |-> TRUE,
       v |-> SetTop(document.v, "metadata",
                    Obj(SetEntry(Spread(Get(document.v, "metadata")),
                                 "checksum", Str(checksum.text))))]))

\* a === b for a value a and a string b
StrictEqText(a, b) == a.k = "str" /\ Flatten(a.s) = Flatten(b)

\* verifyChecksum that reports the stored value as it is, without || null
VerifyChecksumAsStored(d) ==
  Let(ParseInput(d), LAMBDA document :
    IF ~document.ok
      THEN [ok |-> FALSE, valid |-> FALSE, expected |-> Null, actual |-> <<>>]
    ELSE
  Let(Get(Get(document.v, "metadata"), "checksum"), LAMBDA stored :
  Let(CalculateChecksum(document.v).text, LAMBDA calculatedChecksum :
    [ok |-> TRUE,
     valid |-> StrictEqText(stored, calculatedChecksum),
     expected |-> stored,
     actual |-> calculatedChecksum])))

\* verifyChecksum(doc): [ok, valid, expected, actual]
VerifyChecksum(d) ==
  Let(ParseInput(d), LAMBDA document :
    IF ~document.ok
      THEN [ok |-> FALSE, valid |-> FALSE, expected |-> Null, actual |-> <<>>]
    ELSE
  Let(Get(Get(document.v, "metadata"), "checksum"), LAMBDA stored :
  Let(IF Truthy(stored) THEN stored ELSE Null, LAMBDA storedChecksum :
  Let(CalculateChecksum(document.v).text, LAMBDA calculatedChecksum :
    [ok |-> TRUE,
     valid |-> StrictEqText(storedChecksum, calculatedChecksum),
     expected |-> storedChecksum,
     actual |-> calculatedChecksum]))))

\* removeChecksum(doc): [ok, v]
RemoveChecksum(d) ==
  Let(CopyInput(d), LAMBDA document :
    IF ~document.ok THEN [ok |-> FALSE, v |-> Undefined]
    ELSE Let(Get(document.v, "metadata"), LAMBDA md :
      [ok |-> TRUE,
       v |-> IF Truthy(md)
               THEN SetTop(document.v, "metadata", Delete(md, "checksum"))
               ELSE document.v]))

(***************************************************************************)
(* signing.ts: keys                                                        *)
(***************************************************************************)
Algorithms == {"RS256", "RS384", "RS512", "ES256", "ES384", "ES512"}
RSA == "RSASSA-PKCS1-v1_5"
ECDSA == "ECDSA"
NoConfig == [defined |-> FALSE, name |-> "", hash |-> "", namedCurve |-> ""]
\* ALGORITHM_CONFIG[algorithm]; namedCurve "" stands for a missing property
AlgorithmConfig(algorithm) ==
  CASE algorithm = "RS256" -> [defined |-> TRUE, name |-> RSA, hash |-> "SHA-256", namedCurve |-> ""]
    [] algorithm = "RS384" -> [defined |-> TRUE, name |-> RSA, hash |-> "SHA-384", namedCurve |-> ""]
    [] algorithm = "RS512" -> [defined |-> TRUE, name |-> RSA, hash |-> "SHA-512", namedCurve |-> ""]
    [] algorithm = "ES256" -> [defined |-> TRUE, name |-> ECDSA, hash |-> "SHA-256", namedCurve |-> "P-256"]
    [] algorithm = "ES384" -> [defined |-> TRUE, name |-> ECDSA, hash |-> "SHA-384", namedCurve |-> "P-384"]
    [] algorithm = "ES512" -> [defined |-> TRUE, name |-> ECDSA, hash |-> "SHA-512", namedCurve |-> "P-521"]
    [] OTHER -> NoConfig

\* A CryptoKey: type "public" or "private" (usages verify or sign), the
\* key pair id it belongs to, its algorithm name, the hash it is bound to
\* (RSA keys only) and its curve (EC keys only)
NoKey == [type |-> "", id |-> "", name |-> "", hash |-> "", curve |-> ""]
KeyId(n) == "k" \o ToString(n)

\* subtle.generateKey(keyParams, true, ['sign', 'verify']) as called by
\* generateKeyPair(algorithm); id names the fresh key material
GenerateKeyPair(algorithm, id) ==
  Let(AlgorithmConfig(algorithm), LAMBDA config :
    IF config.name = RSA
      THEN [publicKey |-> [type |-> "public", id |-> id, name |-> config.name,
                           hash |-> config.hash, curve |-> ""],
            privateKey |-> [type |-> "private", id |-> id, name |-> config.name,
                            hash |-> config.hash, curve |-> ""]]
      ELSE [publicKey |-> [type |-> "public", id |-> id, name |-> config.name,
                           hash |-> "", curve |-> config.namedCurve],
            privateKey |-> [type |-> "private", id |-> id, name |-> config.name,
                            hash |-> "", curve |-> config.namedCurve]])

\* subtle.exportKey('spki' | 'pkcs8', key): the DER bytes name the format,
\* the algorithm, the curve and the key material, not the hash
ExportKey(format, key) == <<format, key.name, key.curve, key.id>>

\* arrayBufferToBase64 / base64ToArrayBuffer: the base64 text of a byte
\* sequence is marked by B64Tag; a text without the mark is not base64.
\* atob throws on it, Buffer.from skips what it cannot decode.
B64Tag == "b64:"
ArrayBufferToBase64(buffer) == <<B64Tag>> \o buffer
Base64ToArrayBuffer(base64, hasAtob) ==
  IF base64 = <<>> THEN [ok |-> TRUE, bytes |-> <<>>]
  ELSE IF Head(base64) = B64Tag THEN [ok |-> TRUE, bytes |-> Tail(base64)]
  ELSE IF hasAtob THEN [ok |-> FALSE, bytes |-> <<>>]
  ELSE [ok |-> TRUE, bytes |-> <<>>]

\* tokens per line of a PEM body (64 characters in the source)
PemLine == 2
PemBegin(type) == "-----BEGIN " \o type \o "-----"
PemEnd(type) == "-----END " \o type \o "-----"
PemTypes == {"PUBLIC KEY", "PRIVATE KEY"}
PemMarkers == {PemBegin(t) : t \in PemTypes} \cup {PemEnd(t) : t \in PemTypes}

\* lines that are never broken
WrapLinesUnbroken(t, width) == t

RECURSIVE WrapLinesAt(_, _)
\* base64.match(/.{1,64}/g).join('\n') for lines of width characters
WrapLinesAt(t, width) ==
  IF Len(t) <= width THEN t
  ELSE SubSeq(t, 1, width) \o <<NL>> \o WrapLinesAt(SubSeq(t, width + 1, Len(t)), width)
WrapLines(t) == WrapLinesAt(t, PemLine)

\* `-----BEGIN ${type}-----\n${lines.join('\n')}\n-----END ${type}-----`
Framed(lines, type) == <<PemBegin(type), NL>> \o lines \o <<NL, PemEnd(type)>>
\* pem.replace(BEGIN marker).replace(END marker).replace(/\s+/g, '')
StripPem(pem) == SelectSeq(pem, LAMBDA c : c \notin PemMarkers \cup {NL, " "})

\* arrayBufferToPem(buffer, type)
ArrayBufferToPem(buffer, type) == Framed(WrapLines(ArrayBufferToBase64(buffer)), type)

\* pemToArrayBuffer(pem): markers and white space removed, the rest decoded
PemToArrayBuffer(pem, hasAtob) == Base64ToArrayBuffer(StripPem(pem), hasAtob)

\* generatePemKeyPair: the PEM texts of a generated pair
PemPublicKey(pair) == ArrayBufferToPem(ExportKey("spki", pair.publicKey), "PUBLIC KEY")
PemPrivateKey(pair) == ArrayBufferToPem(ExportKey("pkcs8", pair.privateKey), "PRIVATE KEY")

\* The same conversions on bytes (0..255) and characters.  A text is a
\* sequence of one-character strings, line breaks and PEM markers.
LineWidth == 64
Base64Chars ==
  <<"A", "B", "C", "D", "E", "F", "G", "H", "I", "J", "K", "L", "M", "N", "O", "P",
    "Q", "R", "S", "T", "U", "V", "W", "X", "Y", "Z", "a", "b", "c", "d", "e", "f",
    "g", "h", "i", "j", "k", "l", "m", "n", "o", "p", "q", "r", "s", "t", "u", "v",
    "w", "x", "y", "z", "0", "1", "2", "3", "4", "5", "6", "7", "8", "9", "+", "/">>
Pad == "="
Sextet(c) == (CHOOSE i \in 1..64 : Base64Chars[i] = c) - 1
ByteOr0(bytes, i) == IF i <= Len(bytes) THEN bytes[i] ELSE 0
Power(b, n) == IF n = 0 THEN 1 ELSE IF n = 1 THEN b ELSE IF n = 2 THEN b * b ELSE b * b * b

\* btoa(String.fromCharCode(...bytes)) and Buffer.from(bytes).toString(
\* 'base64'): three bytes make four characters, the last group is padded
Btoa(bytes) ==
  [k \in 1..(4 * ((Len(bytes) + 2) \div 3)) |->
     Let((k - 1) \div 4, LAMBDA g :
     Let((k - 1) % 4, LAMBDA at :
       IF 3 * g + at > Len(bytes) THEN Pad
       ELSE Base64Chars[(((ByteOr0(bytes, 3 * g + 1) * 65536
                           + ByteOr0(bytes, 3 * g + 2) * 256
                           + ByteOr0(bytes, 3 * g + 3)) \div Power(64, 3 - at)) % 64) + 1]))]

\* the bytes of a text of base64 characters without padding
DecodeSextets(chars) ==
  [j \in 1..((Len(chars) * 6) \div 8) |->
     Let((j - 1) \div 3, LAMBDA g :
     Let((j - 1) % 3, LAMBDA at :
       ((  (IF 4 * g + 1 <= Len(chars) THEN Sextet(chars[4 * g + 1]) ELSE 0) * 262144
         + (IF 4 * g + 2 <= Len(chars) THEN Sextet(chars[4 * g + 2]) ELSE 0) * 4096
         + (IF 4 * g + 3 <= Len(chars) THEN Sextet(chars[4 * g + 3]) ELSE 0) * 64
         + (IF 4 * g + 4 <= Len(chars) THEN Sextet(chars[4 * g + 4]) ELSE 0))
        \div Power(256, 2 - at)) % 256))]

\* the padding at the end of a text taken off: one or two characters of a
\* text whose length is a multiple of four
Unpadded(text) ==
  IF Len(text) % 4 # 0 \/ text = <<>> \/ text[Len(text)] # Pad THEN text
  ELSE IF text[Len(text) - 1] = Pad THEN SubSeq(text, 1, Len(text) - 2)
  ELSE SubSeq(text, 1, Len(text) - 1)

\* atob(base64) where there is one, which throws on a text that is not
\* base64, else Buffer.from(base64, 'base64'), which reads what it can up
\* to the padding: [ok, bytes]
Atob(base64, hasAtob) ==
  IF hasAtob
    THEN Let(Unpadded(SelectSeq(base64, LAMBDA c : c \notin {NL, " "})), LAMBDA chars :
           IF Len(chars) % 4 = 1 \/ \E i \in 1..Len(chars) : chars[i] \notin Range(Base64Chars)
             THEN [ok |-> FALSE, bytes |-> <<>>]
             ELSE [ok |-> TRUE, bytes |-> DecodeSextets(chars)])
    ELSE Let(IF \E i \in 1..Len(base64) : base64[i] = Pad
               THEN SubSeq(base64, 1, (CHOOSE i \in 1..Len(base64) :
                              base64[i] = Pad /\ \A j \in 1..(i - 1) : base64[j] # Pad) - 1)
               ELSE base64, LAMBDA upto :
           [ok |-> TRUE,
            bytes |-> DecodeSextets(SelectSeq(upto, LAMBDA c : c \in Range(Base64Chars)))])

\* arrayBufferToPem(buffer, type) and pemToArrayBuffer(pem) on bytes
PemOfBytes(bytes, type) == Framed(WrapLinesAt(Btoa(bytes), LineWidth), type)
BytesOfPem(pem, hasAtob) == Atob(StripPem(pem), hasAtob)

\* subtle.importKey(format, keyBuffer, importParams, false, usages):
\* [ok, key]; ok = FALSE when the bytes are not a key of that format,
\* algorithm and curve
ImportKey(format, keyBuffer, config) ==
  IF /\ Len(keyBuffer) = 4
     /\ keyBuffer[1] = format
     /\ keyBuffer[2] = config.name
     /\ keyBuffer[3] = config.namedCurve
    THEN [ok |-> TRUE,
          key |-> [type |-> IF format = "spki" THEN "public" ELSE "private",
                   id |-> keyBuffer[4], name |-> config.name,
                   hash |-> IF config.name = RSA THEN config.hash ELSE "",
                   curve |-> keyBuffer[3]]]
    ELSE [ok |-> FALSE, key |-> NoKey]

\* importPrivateKey / importPublicKey(pem, algorithm); reading config.name
\* of an algorithm without configuration throws
ImportPem(format, pem, algorithm, hasAtob) ==
  Let(AlgorithmConfig(algorithm), LAMBDA config :
  Let(PemToArrayBuffer(pem, hasAtob), LAMBDA keyBuffer :
    IF ~config.defined \/ ~keyBuffer.ok THEN [ok |-> FALSE, key |-> NoKey]
    ELSE ImportKey(format, keyBuffer.bytes, config)))
ImportPrivateKey(pem, algorithm, hasAtob) == ImportPem("pkcs8", pem, algorithm, hasAtob)
ImportPublicKey(pem, algorithm, hasAtob) == ImportPem("spki", pem, algorithm, hasAtob)

\* A key argument (CryptoKey | string | undefined): kind "none", "native"
\* (key) or "pem" (text)
NoKeyArg == [kind |-> "none", key |-> NoKey, text |-> <<>>]
NativeArg(key) == [kind |-> "native", key |-> key, text |-> <<>>]
PemArg(text) == [kind |-> "pem", key |-> NoKey, text |-> text]

\* the hash a signature is made or checked with: the key's for RSA, the
\* parameter's for ECDSA
HashUsed(params, key) == IF key.name = RSA THEN key.hash ELSE params.hash
Nonces == {"n1", "n2"}
Deterministic == "pkcs1"

\* subtle.sign(signParams, key, data): [ok, bytes]; an ECDSA signature
\* holds a fresh nonce.  The bytes name the key pair, the hash and the
\* signed data (signatures cannot be forged).
CryptoSign(params, key, data, nonce) ==
  IF key.type # "private" \/ key.name # params.name THEN [ok |-> FALSE, bytes |-> <<>>]
  ELSE [ok |-> TRUE,
        bytes |-> <<"sig", key.id, HashUsed(params, key), Flatten(data),
                    IF key.name = RSA THEN Deterministic ELSE nonce>>]

\* subtle.verify handed a buffer other than the canonical bytes: the data
\* is not compared
CryptoVerifyAnyData(params, key, signature, data) ==
  IF key.type # "public" \/ key.name # params.name THEN [ok |-> FALSE, valid |-> FALSE]
  ELSE [ok |-> TRUE,
        valid |-> /\ Len(signature) = 5
                  /\ SubSeq(signature, 1, 3) = <<"sig", key.id, HashUsed(params, key)>>
                  /\ signature[5] \in (IF key.name = RSA THEN {Deterministic} ELSE Nonces)]

\* subtle.verify that accepts a signature made with any key of the
\* algorithm
CryptoVerifyAnyKey(params, key, signature, data) ==
  IF key.type # "public" \/ key.name # params.name THEN [ok |-> FALSE, valid |-> FALSE]
  ELSE [ok |-> TRUE,
        valid |-> /\ Len(signature) = 5
                  /\ signature[1] = "sig"
                  /\ SubSeq(signature, 3, 4) = <<HashUsed(params, key), Flatten(data)>>
                  /\ signature[5] \in (IF key.name = RSA THEN {Deterministic} ELSE Nonces)]

\* subtle.verify(verifyParams, key, signature, data): [ok, valid]
CryptoVerify(params, key, signature, data) ==
  IF key.type # "public" \/ key.name # params.name THEN [ok |-> FALSE, valid |-> FALSE]
  ELSE [ok |-> TRUE,
        valid |-> /\ Len(signature) = 5
                  /\ SubSeq(signature, 1, 4) =
                       <<"sig", key.id, HashUsed(params, key), Flatten(data)>>
                  /\ signature[5] \in (IF key.name = RSA THEN {Deterministic} ELSE Nonces)]

(***************************************************************************)
(* signing.ts: signDocument and verifySignature                            *)
(***************************************************************************)
\* new Date().toISOString()
Now == <<"2026-01-12T00:00:00.000Z">>

\* options of signDocument: the value of each property, undefined for a
\* property the caller leaves out; options = {}
NoOptions == [publicKey |-> Undefined, keyId |-> Undefined, includeTimestamp |-> Undefined]

\* typeof key === 'string' ? await importKey(key, algorithm) : key, for a
\* key argument: [ok, key]
ResolveKey(format, arg, algorithm, hasAtob) ==
  CASE arg.kind = "pem" -> ImportPem(format, arg.text, algorithm, hasAtob)
    [] arg.kind = "native" -> [ok |-> TRUE, key |-> arg.key]
    [] OTHER -> [ok |-> TRUE, key |-> NoKey]

\* a signature record that carries a timestamp whatever the options say
SignatureInfoStamped(algorithm, signature, options, now) ==
  Obj(<< <<"algorithm", Str(<<algorithm>>)>>, <<"signature", Str(signature)>> >>
      \o (IF Truthy(options.publicKey)
            THEN << <<"publicKey", options.publicKey>> >> ELSE <<>>)
      \o (IF Truthy(options.keyId)
            THEN << <<"keyId", options.keyId>> >> ELSE <<>>)
      \o << <<"timestamp", Str(now)>> >>)

\* the signature record of signDocument, in the order its fields are set
SignatureInfo(algorithm, signature, options, now) ==
  Obj(<< <<"algorithm", Str(<<algorithm>>)>>, <<"signature", Str(signature)>> >>
      \o (IF Truthy(options.publicKey)
            THEN << <<"publicKey", options.publicKey>> >> ELSE <<>>)
      \o (IF Truthy(options.keyId)
            THEN << <<"keyId", options.keyId>> >> ELSE <<>>)
      \o (IF options.includeTimestamp # Lit("false")
            THEN << <<"timestamp", Str(now)>> >> ELSE <<>>))

\* a clearing that takes the checksum away with the signature
ClearSignatureAndChecksum(document) ==
  IF Truthy(Get(document, "metadata")) /\ Get(document, "metadata").k = "obj"
    THEN SetTop(document, "metadata",
                Delete(Delete(Get(document, "metadata"), "signature"), "checksum"))
    ELSE document

\* if (document.metadata) { delete document.metadata.signature }
ClearSignature(document) ==
  IF Truthy(Get(document, "metadata")) /\ Get(document, "metadata").k = "obj"
    THEN SetTop(document, "metadata", Delete(Get(document, "metadata"), "signature"))
    ELSE document

\* signDocument(doc, privateKey, algorithm, options): [ok, v]; ok = FALSE
\* when it throws (the promise rejects)
SignDocument(d, privateKey, algorithm, options, nonce, now, hasAtob) ==
  Let(CopyInput(d), LAMBDA parsed :
    IF ~parsed.ok THEN [ok |-> FALSE, v |-> Undefined]
    ELSE
  Let(ClearSignature(parsed.v), LAMBDA document :
  Let(CreateCanonicalJson(document), LAMBDA canonical :
  Let(AlgorithmConfig(algorithm), LAMBDA config :
  Let(ResolveKey("pkcs8", privateKey, algorithm, hasAtob), LAMBDA key :
    IF ~key.ok \/ ~config.defined THEN [ok |-> FALSE, v |-> Undefined]
    ELSE
  Let(CryptoSign(config, key.key, canonical, nonce), LAMBDA signatureBuffer :
    IF ~signatureBuffer.ok THEN [ok |-> FALSE, v |-> Undefined]
    ELSE
      [ok |-> TRUE,
       v |-> SetTop(document, "metadata",
               Obj(SetEntry(Spread(Get(document, "metadata")), "signature",
                     Str(JsonStringify(
                       SignatureInfo(algorithm,
                                     ArrayBufferToBase64(signatureBuffer.bytes),
                                     options, now))))))]))))))

\* results of verifySignature
SigFailed(message) ==
  [threw |-> FALSE, valid |-> FALSE, error |-> message, info |-> Undefined]
SigThrown == [threw |-> TRUE, valid |-> FALSE, error |-> "", info |-> Undefined]
NoSignatureFound == "No signature found in document"
InvalidFormat == "Invalid signature format"
NoPublicKey == "No public key provided and none embedded in signature"
VerificationFailed == "Verification failed: "

\* KeyToUse that prefers the key embedded in the signature record
KeyToUseEmbeddedFirst(publicKey, signatureInfo) ==
  IF Truthy(Get(signatureInfo, "publicKey")) /\ Get(signatureInfo, "publicKey").k = "str"
    THEN PemArg(Get(signatureInfo, "publicKey").s)
  ELSE IF publicKey.kind = "native" \/ (publicKey.kind = "pem" /\ publicKey.text # <<>>)
    THEN publicKey
  ELSE NoKeyArg

\* the key verifySignature uses: the argument if it is truthy, otherwise
\* signatureInfo.publicKey if that is truthy; kind "other" is a value that
\* is neither a string nor a CryptoKey
KeyToUse(publicKey, signatureInfo) ==
  IF publicKey.kind = "native" \/ (publicKey.kind = "pem" /\ publicKey.text # <<>>)
    THEN publicKey
  ELSE IF ~Truthy(Get(signatureInfo, "publicKey")) THEN NoKeyArg
  ELSE IF Get(signatureInfo, "publicKey").k = "str"
    THEN PemArg(Get(signatureInfo, "publicKey").s)
  ELSE [kind |-> "other", key |-> NoKey, text |-> <<>>]

\* ALGORITHM_CONFIG[signatureInfo.algorithm]
ConfigOf(signatureInfo) ==
  IF Get(signatureInfo, "algorithm").k = "str"
    THEN AlgorithmConfig(Flatten(Get(signatureInfo, "algorithm").s))
    ELSE NoConfig
\* the algorithm keys are imported for, fixed to the default of signDocument
AlgorithmOfDefault(signatureInfo) == "RS256"
AlgorithmOf(signatureInfo) ==
  IF Get(signatureInfo, "algorithm").k = "str"
    THEN Flatten(Get(signatureInfo, "algorithm").s) ELSE ""

\* base64ToArrayBuffer(signatureInfo.signature): a value that is not a
\* string is converted by atob ("null" and "true" are base64 texts) and
\* refused by Buffer.from
DecodeSignature(signature, hasAtob) ==
  CASE signature.k = "str" -> Base64ToArrayBuffer(signature.s, hasAtob)
    [] signature.k = "lit" /\ hasAtob /\ signature.s \in {<<"null">>, <<"true">>} ->
         [ok |-> TRUE, bytes |-> <<>>]
    [] OTHER -> [ok |-> FALSE, bytes |-> <<>>]

\* lines 321-356 of verifySignature, for a parsed signature record
VerifyWithInfo(document, signatureInfo, publicKey, hasAtob) ==
  IF signatureInfo = Null THEN SigThrown
  ELSE
  Let(KeyToUse(publicKey, signatureInfo), LAMBDA keyToUse :
    IF keyToUse.kind = "none" THEN SigFailed(NoPublicKey)
    ELSE
  Let(CreateCanonicalJson(ClearSignature(JsonClone(document))), LAMBDA canonical :
  Let(ConfigOf(signatureInfo), LAMBDA config :
  Let(ResolveKey("spki", keyToUse, AlgorithmOf(signatureInfo), hasAtob), LAMBDA key :
  Let(DecodeSignature(Get(signatureInfo, "signature"), hasAtob), LAMBDA signatureBuffer :
    IF ~key.ok \/ ~config.defined \/ ~signatureBuffer.ok THEN SigThrown
    ELSE
  Let(CryptoVerify(config, key.key, signatureBuffer.bytes, canonical), LAMBDA verified :
    IF ~verified.ok THEN SigThrown
    ELSE [threw |-> FALSE, valid |-> verified.valid, error |-> "",
          info |-> signatureInfo]))))))

\* VerifyTry that looks for a key before it looks for a signature
VerifyTryKeyFirst(d, publicKey, hasAtob) ==
  Let(ParseInput(d), LAMBDA document :
    IF ~document.ok \/ document.v = Null THEN SigThrown
    ELSE
  Let(Get(Get(document.v, "metadata"), "signature"), LAMBDA signature :
    IF publicKey.kind = "none" THEN SigFailed(NoPublicKey)
    ELSE IF ~Truthy(signature) THEN SigFailed(NoSignatureFound)
    ELSE
  Let(IF signature.k = "str" THEN JsonParse(signature.s) ELSE POk(signature, 0),
      LAMBDA signatureInfo :
    IF ~signatureInfo.ok THEN SigFailed(InvalidFormat)
    ELSE VerifyWithInfo(document.v, signatureInfo.v, publicKey, hasAtob))))

\* VerifyTry without the inner try around JSON.parse(metadata.signature)
VerifyTryNoInnerCatch(d, publicKey, hasAtob) ==
  Let(ParseInput(d), LAMBDA document :
    IF ~document.ok \/ document.v = Null THEN SigThrown
    ELSE
  Let(Get(Get(document.v, "metadata"), "signature"), LAMBDA signature :
    IF ~Truthy(signature) THEN SigFailed(NoSignatureFound)
    ELSE
  Let(IF signature.k = "str" THEN JsonParse(signature.s) ELSE POk(signature, 0),
      LAMBDA signatureInfo :
    IF ~signatureInfo.ok THEN SigThrown
    ELSE VerifyWithInfo(document.v, signatureInfo.v, publicKey, hasAtob))))

\* the body of the try block of verifySignature
VerifyTry(d, publicKey, hasAtob) ==
  Let(ParseInput(d), LAMBDA document :
    IF ~document.ok \/ document.v = Null THEN SigThrown
    ELSE
  Let(Get(Get(document.v, "metadata"), "signature"), LAMBDA signature :
    IF ~Truthy(signature) THEN SigFailed(NoSignatureFound)
    ELSE
  Let(IF signature.k = "str" THEN JsonParse(signature.s) ELSE POk(signature, 0),
      LAMBDA signatureInfo :
    IF ~signatureInfo.ok THEN SigFailed(InvalidFormat)
    ELSE VerifyWithInfo(document.v, signatureInfo.v, publicKey, hasAtob))))

\* verifySignature without its outer catch: what is thrown rejects the promise
VerifySignatureUncaught(d, publicKey, hasAtob) ==
  Let(VerifyTry(d, publicKey, hasAtob), LAMBDA r :
    [rejected |-> r.threw, valid |-> r.valid, error |-> r.error, info |-> r.info])

\* verifySignature(doc, publicKey): [rejected, valid, error, info];
\* info = Undefined stands for a result without signatureInfo
VerifySignature(d, publicKey, hasAtob) ==
  Let(VerifyTry(d, publicKey, hasAtob), LAMBDA r :
    IF r.threw
      THEN [rejected |-> FALSE, valid |-> FALSE, error |-> VerificationFailed,
            info |-> Undefined]
      ELSE [rejected |-> FALSE, valid |-> r.valid, error |-> r.error, info |-> r.info])

\* a removal that takes the whole metadata object away
RemoveSignatureWithMetadata(d) ==
  Let(CopyInput(d), LAMBDA document :
    IF ~document.ok THEN [ok |-> FALSE, v |-> Undefined]
    ELSE [ok |-> TRUE, v |-> [document.v EXCEPT !.e = DeleteEntry(@, "metadata")]])

\* removeSignature(doc): [ok, v]
RemoveSignature(d) ==
  Let(CopyInput(d), LAMBDA document :
    IF ~document.ok THEN [ok |-> FALSE, v |-> Undefined]
    ELSE [ok |-> TRUE, v |-> ClearSignature(document.v)])

(***************************************************************************)
(* The documents of the model and the caller's edits                       *)
(***************************************************************************)
Names == {"Test", "Tampered"}
Currencies == {"USD", "EUR"}
Tags == {"a", "c"}
Notes == {"n1", "n2"}
\* values a caller can write over metadata.checksum: a wrong digest and
\* the empty string
TamperSums == {<<"abc123">>, <<>>}
\* another wrong digest, for documents that carry "abc123"
OtherSums == {<<"def456">>}
TamperSigs == {<<"xyz789">>}
\* texts that are not JSON, among them the empty string, and a JSON text
\* that is no record
BrokenSigs == {<<"xyz789">>, <<"{">>, <<>>, <<"null">>}

BaseEntries ==
  << <<"name", Str(<<"Test">>)>>,
     <<"cards", Obj(<< <<"name", Str(<<"Default">>)>>,
                       <<"currency", Str(<<"USD">>)>> >>)>>,
     <<"tags", Arr(<<Str(<<"a">>), Str(<<"b">>)>>)>> >>

InitMetadata ==
  { << <<"notes", Str(<<"n1">>)>> >>,
    << <<"checksum", Str(<<"abc123">>)>>, <<"signature", Str(<<"xyz789">>)>> >>,
    << <<"checksum", Str(<<"abc123">>)>>, <<"signature", Str(<<"xyz789">>)>>,
       <<"notes", Str(<<"n1">>)>> >> }

InitDocs ==
  {Obj(BaseEntries)} \cup {Obj(Append(BaseEntries, <<"metadata", Obj(m)>>)) : m \in InitMetadata}

\* no function of the utilities called yet
NoUtil == [fn |-> ""]
\* nothing exported yet
NoPem == [step |-> "none", bytes |-> <<>>, type |-> "", text |-> <<>>,
          back |-> [ok |-> FALSE, bytes |-> <<>>]]
NoCanon == [done |-> FALSE, failed |-> FALSE, text |-> <<>>]
NoSigner == [idx |-> 0, embedded |-> 0]
NoSig == [done |-> FALSE, form |-> "", key |-> NoKeyArg, rejected |-> FALSE,
          valid |-> FALSE, error |-> "", info |-> Undefined]
NoSum == [done |-> FALSE, ok |-> FALSE, valid |-> FALSE, expected |-> Null, actual |-> <<>>]
NoCall == [op |-> "", input |-> Undefined, algorithm |-> "", options |-> NoOptions,
           output |-> Undefined]
\* const output = op(input)
Called(op, input, output) == [NoCall EXCEPT !.op = op, !.input = input, !.output = output]

\* obj.a.b = val
SetNested(d, outer, key, val) ==
  SetTop(d, outer, Obj(SetEntry(Spread(Get(d, outer)), key, val)))

\* the caller changes its working copy; results obtained for the copy as it
\* was are dropped
Edited(d2) ==
  /\ d2 # doc
  /\ origin = "init" \/ tampers < MaxTampers
  /\ doc' = d2
  /\ tampers' = IF origin = "init" THEN 0 ELSE tampers + 1
  /\ canon' = [canon EXCEPT !.doc = NoCanon]
  /\ sumRes' = NoSum
  /\ sigRes' = NoSig
  /\ last' = NoCall
  /\ UNCHANGED <<lib, ref, origin, keys, signer, atob, heap, calls>>

SetName == \E v \in Names : Edited(SetTop(doc, "name", Str(<<v>>)))

SetCurrency == \E v \in Currencies : Edited(SetNested(doc, "cards", "currency", Str(<<v>>)))

SetTag ==
  \E v \in Tags :
    LET tags == Get(doc, "tags") IN
    Edited(SetTop(doc, "tags", [tags EXCEPT !.e[1] = <<"", Str(<<v>>)>>]))

SwapTags ==
  LET tags == Get(doc, "tags") IN
  Edited(SetTop(doc, "tags", [tags EXCEPT !.e = Reverse(tags.e)]))

SetNotes == \E v \in Notes : Edited(SetNested(doc, "metadata", "notes", Str(<<v>>)))

SetChecksum(values) ==
  \E v \in values : Edited(SetNested(doc, "metadata", "checksum", Str(v)))

SetSignature(values) ==
  \E v \in values : Edited(SetNested(doc, "metadata", "signature", Str(v)))

\* values that JSON cannot represent, and where the caller puts them: as
\* the value of a property or as an element of an array
Unrepresentable == {Lit(x) : x \in NonFinite} \cup {Function, Cycle}
Slots == {"property", "element"}
SetUnrepresentable ==
  \E v \in Unrepresentable, slot \in Slots :
    IF slot = "property" THEN Edited(SetNested(doc, "cards", "currency", v))
    ELSE Edited(SetTop(doc, "tags", [Get(doc, "tags") EXCEPT !.e[1] = <<"", v>>]))

\* the same properties written in another order, at the top level or
\* inside a nested object
Places == {"top", "cards", "metadata"}
ReverseKeys ==
  \E where \in Places :
    IF where = "top" THEN Edited([doc EXCEPT !.e = Reverse(doc.e)])
    ELSE /\ Get(doc, where).k = "obj"
         /\ Edited(SetTop(doc, where, Obj(Reverse(Get(doc, where).e))))

(***************************************************************************)
(* The operations of checksum.ts as steps                                  *)
(***************************************************************************)
\* the document as first protected or read, and the document as it is now
Targets == {"ref", "doc"}
CreateCanonicalJsonStep ==
  \E which \in Targets :
    /\ ~canon[which].done
    /\ \E r \in {CreateCanonicalJsonResult(IF which = "ref" THEN ref ELSE doc)} :
         canon' = [canon EXCEPT ![which] =
                     [done |-> TRUE, failed |-> ~r.ok, text |-> r.text]]
    /\ UNCHANGED <<lib, doc, ref, origin, keys, sumRes, sigRes, tampers, signer, atob, heap, calls, last>>

\* doc = await addChecksum(doc)
AddChecksumStep ==
  /\ doc' = AddChecksum(doc).v
  /\ doc'.k = "obj"
  /\ ref' = doc'
  /\ origin' = "addChecksum"
  /\ canon' = [ref |-> NoCanon, doc |-> NoCanon]
  /\ sumRes' = NoSum
  /\ sigRes' = NoSig
  /\ tampers' = 0
  /\ signer' = NoSigner
  /\ last' = Called("addChecksum", doc, doc')
  /\ UNCHANGED <<lib, keys, atob, heap, calls>>

\* await verifyChecksum(doc)
VerifyChecksumStep ==
  /\ sumRes' = [done |-> TRUE] @@ VerifyChecksum(doc)
  /\ UNCHANGED <<lib, doc, ref, origin, keys, canon, sigRes, tampers, signer, atob, heap, calls, last>>

\* doc = remove(doc), for removeChecksum and removeSignature: an edit of
\* the working copy when it takes a field away
Removed(op, d2) ==
  /\ origin = "init" \/ tampers < MaxTampers
  /\ doc' = d2
  /\ last' = Called(op, doc, d2)
  /\ tampers' = IF origin = "init" \/ d2 = doc THEN tampers ELSE tampers + 1
  /\ canon' = [canon EXCEPT !.doc = NoCanon]
  /\ sumRes' = NoSum
  /\ sigRes' = NoSig
  /\ UNCHANGED <<lib, ref, origin, keys, signer, atob, heap, calls>>

\* doc = removeChecksum(doc)
RemoveChecksumStep == Removed("removeChecksum", RemoveChecksum(doc).v)

(***************************************************************************)
(* The operations of signing.ts as steps                                   *)
(***************************************************************************)
\* the algorithms a further key pair is generated for: the first pair's
\* (another pair of the same kind) and the same hash in the other family
OtherFamily(algorithm) ==
  CASE algorithm = "RS256" -> "ES256" [] algorithm = "RS384" -> "ES384"
    [] algorithm = "RS512" -> "ES512" [] algorithm = "ES256" -> "RS256"
    [] algorithm = "ES384" -> "RS384" [] OTHER -> "RS512"

\* keys.push(await generateKeyPair(algorithm)); the first pair is of an
\* algorithm in first
GenerateKeyPairStep(first) ==
  \E algorithm \in (IF keys = <<>> THEN first ELSE {keys[1], OtherFamily(keys[1])}) :
    /\ Len(keys) < MaxKeys
    /\ keys' = Append(keys, algorithm)
    /\ UNCHANGED <<lib, doc, ref, origin, canon, sumRes, sigRes, tampers, signer, atob, heap, calls, last>>

\* the i-th generated pair, as handles and as PEM texts
KeyPairOf(i) == GenerateKeyPair(keys[i], KeyId(i))
PrivateArgs(i) == {NativeArg(KeyPairOf(i).privateKey), PemArg(PemPrivateKey(KeyPairOf(i)))}
PublicArgs(i) == {NativeArg(KeyPairOf(i).publicKey), PemArg(PemPublicKey(KeyPairOf(i)))}
GeneratedPublicArgs == UNION {PublicArgs(j) : j \in 1..Len(keys)}
\* a PEM text whose body is not base64
BadPem == <<PemBegin("PUBLIC KEY"), NL, "!!!", NL, PemEnd("PUBLIC KEY")>>

\* doc = await signDocument(doc, privateKey, algorithm, options) with the
\* i-th key pair and the algorithm it was generated for; the options are
\* one of given, with options.publicKey the PEM public key of the j-th
\* pair for embed = j > 0
SignDocumentStep(embeds, nonces, given) ==
  \E i \in 1..Len(keys), embed \in embeds \cap 0..Len(keys), nonce \in nonces :
    \E privateKey \in PrivateArgs(i),
       options \in {IF embed = 0 THEN o
                    ELSE [o EXCEPT !.publicKey = Str(PemPublicKey(KeyPairOf(embed)))] :
                      o \in given} :
      /\ doc' = SignDocument(doc, privateKey, keys[i], options, nonce, Now, atob).v
      /\ doc'.k = "obj"
      /\ last' = [Called("signDocument", doc, doc') EXCEPT
                    !.algorithm = keys[i], !.options = options]
      /\ ref' = doc'
      /\ origin' = "signDocument"
      /\ signer' = [idx |-> i, embedded |-> embed]
      /\ canon' = [ref |-> NoCanon, doc |-> NoCanon]
      /\ sumRes' = NoSum
      /\ sigRes' = NoSig
      /\ tampers' = 0
      /\ UNCHANGED <<lib, keys, atob, heap, calls>>

\* the document as verifySignature is handed it: the object, its JSON
\* text, or a text that is not JSON
DocInput(form) ==
  CASE form = "object" -> doc
    [] form = "text" -> Str(JsonStringify(doc))
    [] OTHER -> Str(<<"not json">>)

\* await verifySignature(doc, publicKey) with a generated public key or a
\* key argument of others
VerifySignatureStep(forms, others) ==
  \E form \in forms, publicKey \in others \cup GeneratedPublicArgs :
    /\ sigRes' = [done |-> TRUE, form |-> form, key |-> publicKey]
                   @@ VerifySignature(DocInput(form), publicKey, atob)
    /\ UNCHANGED <<lib, doc, ref, origin, keys, canon, sumRes, tampers, signer, atob, heap, calls, last>>

\* the signature record of doc with one field rewritten or removed
RecordEdits == {"unsupported algorithm", "no algorithm", "bad base64"}
EditRecord(info, edit) ==
  CASE edit = "unsupported algorithm" ->
         Obj(SetEntry(info.e, "algorithm", Str(<<"HS256">>)))
    [] edit = "no algorithm" -> Obj(DeleteEntry(info.e, "algorithm"))
    [] OTHER -> Obj(SetEntry(info.e, "signature", Str(<<"!!!">>)))
\* the signature record stored in a document, parsed: [ok, v]
StoredRecord(d) ==
  IF Get(Get(d, "metadata"), "signature").k = "str"
    THEN JsonParse(Get(Get(d, "metadata"), "signature").s)
    ELSE PFail
TamperRecord ==
  \E edit \in RecordEdits :
    /\ StoredRecord(doc).v.k = "obj"
    /\ Edited(SetNested(doc, "metadata", "signature",
                        Str(JsonStringify(EditRecord(StoredRecord(doc).v, edit)))))

\* doc = removeSignature(doc)
RemoveSignatureStep == Removed("removeSignature", RemoveSignature(doc).v)

\* an edit made to a document that was checksummed or signed
Protected == origin # "init"

\* atob tells whether the platform has a global atob function
\* no function of the library called yet
LibInit ==
  /\ clock = Start
  /\ certs = <<>>
  /\ pemIo = NoPem
  /\ util = NoUtil

InitWith(given, platforms) ==
  /\ LibInit
  /\ heap = <<>>
  /\ calls = <<>>
  /\ last = NoCall
  /\ atob \in platforms
  /\ doc \in given
  /\ ref = doc
  /\ origin = "init"
  /\ keys = <<>>
  /\ canon = [ref |-> NoCanon, doc |-> NoCanon]
  /\ sumRes = NoSum
  /\ sigRes = NoSig
  /\ tampers = 0
  /\ signer = NoSigner

\* a platform with atob: browsers and current Node.js
WithAtob == {TRUE}
Init == InitWith(InitDocs, WithAtob)

\* createCanonicalJson on documents that differ in key order and in their
\* integrity fields
NextCanon ==
  \/ ReverseKeys
  \/ SetName
  \/ SetNotes
  \/ SetChecksum(TamperSums)
  \/ SetSignature(TamperSigs)
  \/ RemoveChecksumStep
  \/ CreateCanonicalJsonStep

SpecCanon == Init /\ [][NextCanon]_vars

\* checksums added, tampered with and verified
NextSum ==
  \/ SetName
  \/ SetCurrency
  \/ SetTag
  \/ SwapTags
  \/ SetNotes
  \/ SetChecksum(TamperSums)
  \/ AddChecksumStep
  \/ VerifyChecksumStep

SpecSum == Init /\ [][NextSum]_vars

(***************************************************************************)
(* What the claims speak of                                                *)
(***************************************************************************)
RECURSIVE SameValues(_, _)
\* two values that hold the same data, the order of object keys aside
SameValues(a, b) ==
  /\ a.k = b.k
  /\ a.s = b.s
  /\ Len(a.e) = Len(b.e)
  /\ IF a.k = "obj"
       THEN \A i \in 1..Len(a.e) :
              \E j \in 1..Len(b.e) : /\ a.e[i][1] = b.e[j][1]
                                     /\ SameValues(a.e[i][2], b.e[j][2])
       ELSE \A i \in 1..Len(a.e) : SameValues(a.e[i][2], b.e[i][2])

\* the keys of an object differ in order somewhere, here or further down
RECURSIVE OrderDiffers(_, _)
OrderDiffers(a, b) ==
  /\ a.k = "obj" /\ b.k = "obj" /\ Len(a.e) = Len(b.e)
  /\ \/ [i \in 1..Len(a.e) |-> a.e[i][1]] # [i \in 1..Len(b.e) |-> b.e[i][1]]
     \/ \E i \in 1..Len(a.e) : OrderDiffers(a.e[i][2], Get(b, a.e[i][1]))

IntegrityFields == {"checksum", "signature"}
HasMetadata(d) == Get(d, "metadata").k = "obj"
MetaEntries(d) == Get(d, "metadata").e
\* metadata without the two integrity fields
OtherMeta(d) == SelectSeq(MetaEntries(d), LAMBDA en : en[1] \notin IntegrityFields)
WithoutMetadata(d) == DeleteEntry(d.e, "metadata")
\* sub occurs in text
Contains(text, sub) ==
  \E i \in 0..(Len(text) - Len(sub)) : SubSeq(text, i + 1, i + Len(sub)) = sub

\* a and b differ at most in the value or the presence of the two
\* integrity fields of their metadata
DifferOnlyInIntegrity(a, b) ==
  /\ HasMetadata(a) /\ HasMetadata(b)
  /\ WithoutMetadata(a) = WithoutMetadata(b)
  /\ OtherMeta(a) = OtherMeta(b)

\* a has a metadata object that holds integrity fields only, b is a
\* without its metadata
OnlyIntegrityMeta(d) ==
  /\ HasMetadata(d) /\ MetaEntries(d) # <<>> /\ OtherMeta(d) = <<>>
SameButMetadata(a, b) ==
  /\ OnlyIntegrityMeta(a)
  /\ ~HasKey(b.e, "metadata")
  /\ b.e = WithoutMetadata(a)

CanonBoth == canon.ref.done /\ canon.doc.done

\* C5: createCanonicalJson returns the same string for two documents that
\* hold the same values and differ only in the insertion order of object
\* keys, at any depth.
C5_KeyOrderIndependent ==
  (CanonBoth /\ SameValues(ref, doc)) => canon.ref.text = canon.doc.text

C5_Witness ==
  /\ CanonBoth /\ SameValues(ref, doc)
  /\ OrderDiffers(Get(ref, "cards"), Get(doc, "cards"))
  /\ [i \in 1..Len(ref.e) |-> ref.e[i][1]] # [i \in 1..Len(doc.e) |-> doc.e[i][1]]
  /\ canon.ref.text = canon.doc.text

\* C6: two documents that differ only in the value or the presence of
\* metadata.checksum and metadata.signature have the same canonical form,
\* and every other metadata field appears in it with its value.
C6_IntegrityFieldsExcluded ==
  /\ (CanonBoth /\ DifferOnlyInIntegrity(ref, doc)) => canon.ref.text = canon.doc.text
  /\ (canon.doc.done /\ HasMetadata(doc)) =>
       \A i \in 1..Len(OtherMeta(doc)) :
         LET en == OtherMeta(doc)[i] IN
         Contains(canon.doc.text, <<Q, en[1], Q, ":", Q>> \o en[2].s \o <<Q>>)

C6_Witness ==
  /\ CanonBoth /\ DifferOnlyInIntegrity(ref, doc)
  /\ Get(Get(ref, "metadata"), "checksum") # Get(Get(doc, "metadata"), "checksum")
  /\ HasKey(MetaEntries(ref), "signature") # HasKey(MetaEntries(doc), "signature")
  /\ OtherMeta(doc) # <<>>
  /\ canon.ref.text = canon.doc.text

\* C7: a document whose metadata holds only checksum and/or signature has
\* the canonical form of the same document without metadata, and the
\* metadata key is absent from that form.
C7_EmptyMetadataRemoved ==
  /\ (CanonBoth /\ (SameButMetadata(doc, ref) \/ SameButMetadata(ref, doc)))
       => canon.ref.text = canon.doc.text
  /\ (canon.doc.done /\ OnlyIntegrityMeta(doc))
       => ~Contains(canon.doc.text, <<Q, "metadata", Q>>)

C7_Witness ==
  /\ CanonBoth /\ SameButMetadata(doc, ref)
  /\ HasKey(MetaEntries(doc), "checksum") /\ HasKey(MetaEntries(doc), "signature")
  /\ canon.ref.text = canon.doc.text

\* the fields that take part in the canonical form: everything but the two
\* integrity fields
Content(d) ==
  IF HasMetadata(d) THEN SetTop(d, "metadata", Obj(OtherMeta(d))) ELSE d
StoredChecksum(d) == Get(Get(d, "metadata"), "checksum")

\* C3: verifyChecksum(addChecksum(d)) is valid with expected equal to
\* actual, whatever metadata d carried.
C3_ChecksumRoundTrip ==
  (sumRes.done /\ origin = "addChecksum" /\ doc = ref) =>
    /\ sumRes.ok /\ sumRes.valid
    /\ StrictEqText(sumRes.expected, sumRes.actual)

C3_Witness ==
  /\ sumRes.done /\ origin = "addChecksum" /\ doc = ref
  /\ HasKey(MetaEntries(doc), "signature") /\ HasKey(MetaEntries(doc), "notes")
  /\ sumRes.valid

\* a field of the canonical form, or the stored checksum, was changed
\* after addChecksum
TamperedAfterAdd ==
  /\ sumRes.done /\ origin = "addChecksum"
  /\ \/ ~SameValues(Content(ref), Content(doc))
     \/ StoredChecksum(doc) # StoredChecksum(ref)

\* C4 as stated: after such a change verifyChecksum returns valid = false
\* and expected is the stored checksum.
C4_Original ==
  TamperedAfterAdd => (~sumRes.valid /\ sumRes.expected = StoredChecksum(doc))

\* C4 as amended: after such a change verifyChecksum returns valid = false;
\* expected is the stored checksum, or null when the stored checksum is the
\* empty string.
C4_TamperDetected ==
  TamperedAfterAdd =>
    /\ ~sumRes.valid
    /\ sumRes.expected = IF StoredChecksum(doc).s = <<>> THEN Null
                         ELSE StoredChecksum(doc)

C4_Witness ==
  /\ TamperedAfterAdd
  /\ Get(doc, "tags").e = Reverse(Get(ref, "tags").e)
  /\ StoredChecksum(doc) = StoredChecksum(ref)
  /\ ~sumRes.valid
  /\ sumRes.expected = StoredChecksum(doc)

\* inputs of the signing operations
Defaults == {NoOptions}
\* options given and left out; a key id and a public key that are empty
KeyIds == {Undefined, Str(<<>>), Str(<<"key-123">>)}
Flags == {Undefined, Lit("true"), Lit("false")}
AnyOptions ==
  [publicKey : {Undefined, Str(<<>>)}, keyId : KeyIds, includeTimestamp : Flags]
NotEmbedded == {0}
EmbeddedKeys == 0..MaxKeys
OneNonce == {"n1"}
TwoFamilies == {"RS256", "ES256"}
JsonForms == {"object", "text"}
ObjectOrGarbage == {"object", "garbage"}
AllForms == {"object", "text", "garbage"}
GeneratedOnly == {}
MissingOrBad == {NoKeyArg, PemArg(BadPem)}
AllSums == TamperSums \cup OtherSums

\* documents signed with each algorithm, changed and verified with the
\* generated public keys
NextSign ==
  \/ GenerateKeyPairStep(Algorithms)
  \/ (~Protected /\ SignDocumentStep(NotEmbedded, Nonces, Defaults))
  \/ VerifySignatureStep(JsonForms, GeneratedOnly)
  \/ (Protected /\ SetName)
  \/ (Protected /\ SetNotes)
  \/ (Protected /\ SetChecksum(OtherSums))

SpecSign == Init /\ [][NextSign]_vars

\* verifySignature on signed, unsigned and malformed input, with and
\* without a key argument, where atob exists and where it does not
NextVerify ==
  \/ GenerateKeyPairStep(TwoFamilies)
  \/ (~Protected /\ SignDocumentStep(EmbeddedKeys, OneNonce, Defaults))
  \/ VerifySignatureStep(ObjectOrGarbage, MissingOrBad)
  \/ (Protected /\ SetSignature(TamperSigs))
  \/ TamperRecord

\* unsigned documents: one without metadata, one with notes only
UnsignedDocs ==
  {Obj(BaseEntries),
   Obj(Append(BaseEntries, <<"metadata", Obj(<< <<"notes", Str(<<"n1">>)>> >>)>>))}
InitVerify == InitWith(UnsignedDocs, BOOLEAN)

SpecVerify == InitVerify /\ [][NextVerify]_vars

\* every operation on every input of the model
Next ==
  \/ ReverseKeys
  \/ SetName
  \/ SetCurrency
  \/ SetTag
  \/ SwapTags
  \/ SetNotes
  \/ SetChecksum(AllSums)
  \/ SetSignature(TamperSigs)
  \/ TamperRecord
  \/ CreateCanonicalJsonStep
  \/ AddChecksumStep
  \/ VerifyChecksumStep
  \/ RemoveChecksumStep
  \/ GenerateKeyPairStep(Algorithms)
  \/ SignDocumentStep(EmbeddedKeys, Nonces, AnyOptions)
  \/ VerifySignatureStep(AllForms, MissingOrBad)

Spec == InitWith(InitDocs, BOOLEAN) /\ [][Next]_vars

(***************************************************************************)
(* Signing claims                                                          *)
(***************************************************************************)
\* metadata.signature as stored in a document
StoredSignature(d) == Get(Get(d, "metadata"), "signature")
\* the document is the value signDocument returned, unmodified
SignedIntact == origin = "signDocument" /\ doc = ref
\* the key argument of the last verification is a public key of pair j
VerifiedWith(j) == j \in 1..Len(keys) /\ sigRes.key \in PublicArgs(j)
Family(algorithm) == AlgorithmConfig(algorithm).name

\* C1: a document signed with the private key of a generated pair, under
\* any of the six algorithms, verifies with that pair's public key (handle
\* or PEM text), on the first verification and on every later one, as long
\* as the signed document is not modified.
C1_SignVerifyRoundTrip ==
  (sigRes.done /\ SignedIntact /\ VerifiedWith(signer.idx)) =>
    (sigRes.valid /\ ~sigRes.rejected /\ sigRes.error = "")

\* an ES512 document verified from its JSON text with the PEM public key
C1_Witness ==
  /\ sigRes.done /\ SignedIntact /\ VerifiedWith(signer.idx)
  /\ keys[signer.idx] = "ES512"
  /\ sigRes.key.kind = "pem"
  /\ sigRes.form = "text"
  /\ sigRes.valid

\* the last verification was of a document changed after signing, with
\* the signature record left as signDocument wrote it, and used the
\* signer's public key
ChangedAfterSigning ==
  /\ sigRes.done
  /\ origin = "signDocument"
  /\ VerifiedWith(signer.idx)
  /\ StoredSignature(doc) = StoredSignature(ref)
  /\ ~SameValues(doc, ref)

\* C2 as stated: a change of the value of any field of the signed
\* document (metadata.signature left alone) makes verification with the
\* signer's public key return valid = false.
C2_Original == ChangedAfterSigning => ~sigRes.valid

\* C2: a change of the value of any field other than metadata.checksum
\* (metadata.signature left alone) makes verification with the signer's
\* public key return valid = false; the result is a mismatch, it carries
\* no error.
C2_TamperDetected ==
  (ChangedAfterSigning /\ ~SameValues(Content(doc), Content(ref))) =>
    (~sigRes.valid /\ ~sigRes.rejected /\ sigRes.error = "")

\* the name of a signed document was changed and verification refused it
C2_Witness ==
  /\ ChangedAfterSigning
  /\ Get(doc, "name") # Get(ref, "name")
  /\ ~sigRes.valid

\* C8: verification with the public key of a pair from another
\* generateKeyPair call returns valid = false, and valid = true is returned
\* only for a document whose signature record is the one signDocument
\* wrote, whose canonical bytes are the signed ones and with the signer's
\* public key.
C8_WrongKeyRejected ==
  sigRes.done =>
    /\ (\A j \in 1..Len(keys) :
          (SignedIntact /\ j # signer.idx /\ VerifiedWith(j)) => ~sigRes.valid)
    /\ sigRes.valid =>
         /\ origin = "signDocument"
         /\ VerifiedWith(signer.idx)
         /\ StoredSignature(doc) = StoredSignature(ref)
         /\ CreateCanonicalJson(doc) = CreateCanonicalJson(ref)

\* an unmodified signed document verified with the public key of a second
\* pair of the same algorithm: a mismatch
C8_Witness ==
  /\ sigRes.done /\ SignedIntact
  /\ \E j \in 1..Len(keys) :
       j # signer.idx /\ keys[j] = keys[signer.idx] /\ VerifiedWith(j)
  /\ ~sigRes.valid
  /\ sigRes.error = ""

\* the signature record of the document, when it is the JSON text of an
\* object
HasRecord == StoredRecord(doc).ok /\ StoredRecord(doc).v.k = "obj"
Record == StoredRecord(doc).v
KeyGiven == sigRes.key.kind # "none"
KeyEmbedded == Truthy(Get(Record, "publicKey"))

\* C9: the key argument is used when one is given, whatever key the
\* signature record carries; without an argument the embedded key is used;
\* without either the result is valid = false with the 'No public key'
\* error, which no other outcome carries: a mismatch has no error and
\* nothing is thrown.
C9_KeyPrecedence ==
  (sigRes.done /\ sigRes.form = "object" /\ HasRecord) =>
    /\ ~sigRes.rejected
    /\ (sigRes.error = NoPublicKey) = (~KeyGiven /\ ~KeyEmbedded)
    /\ sigRes.error = NoPublicKey => (~sigRes.valid /\ sigRes.info = Undefined)
    /\ (SignedIntact /\ KeyGiven) =>
         /\ sigRes.valid = VerifiedWith(signer.idx)
         /\ (\E j \in 1..Len(keys) : VerifiedWith(j) /\ keys[j] = keys[signer.idx])
              => sigRes.error = ""
    /\ (SignedIntact /\ ~KeyGiven /\ KeyEmbedded) =>
         /\ sigRes.valid = (signer.embedded = signer.idx)
         /\ keys[signer.embedded] = keys[signer.idx] => sigRes.error = ""

\* the signer's own key is embedded and the public key of another pair is
\* passed: the argument is used and the signature does not verify
C9_Witness ==
  /\ sigRes.done /\ sigRes.form = "object" /\ SignedIntact
  /\ signer.embedded = signer.idx
  /\ \E j \in 1..Len(keys) : j # signer.idx /\ VerifiedWith(j)
  /\ ~sigRes.valid

\* the inputs C10 lists
NotJson == sigRes.form = "garbage"
NoMetadata == sigRes.form = "object" /\ ~HasMetadata(doc)
BadAlgorithm ==
  /\ sigRes.form = "object" /\ HasRecord
  /\ Get(Record, "algorithm") \notin {Str(<<a>>) : a \in Algorithms}
BadBase64 ==
  /\ sigRes.form = "object" /\ HasRecord
  /\ Get(Record, "signature").k = "str"
  /\ Get(Record, "signature").s # <<>>
  /\ Head(Get(Record, "signature").s) # B64Tag
MalformedPem == sigRes.key = PemArg(BadPem)
WrongFamily ==
  /\ sigRes.form = "object" /\ HasRecord /\ ~BadAlgorithm
  /\ \E j \in 1..Len(keys) :
       VerifiedWith(j) /\ Family(keys[j]) # Family(AlgorithmOf(Record))
Malformed ==
  NotJson \/ NoMetadata \/ BadAlgorithm \/ BadBase64 \/ MalformedPem \/ WrongFamily

MaxCalls == 2

\* a reference to the object at address a
Ref(a) == [k |-> "ref", s |-> <<ToString(a)>>, e |-> <<>>]
AddrOf(h, node) == CHOOSE a \in 1..Len(h) : Ref(a) = node
\* the address of document.metadata for the document at a, 0 when it has
\* no metadata object
MetadataAt(h, a) ==
  IF Get(h[a], "metadata").k = "ref" THEN AddrOf(h, Get(h[a], "metadata")) ELSE 0
\* the address of document.metadata.signature for the document at a when
\* the signature is an object, 0 when it is a string or missing
SignatureAt(h, a) ==
  IF MetadataAt(h, a) # 0 /\ Get(h[MetadataAt(h, a)], "signature").k = "ref"
    THEN AddrOf(h, Get(h[MetadataAt(h, a)], "signature"))
    ELSE 0
\* the document at address a as a value
Load(h, a) ==
  IF MetadataAt(h, a) = 0 THEN h[a]
  ELSE IF SignatureAt(h, a) = 0 THEN SetTop(h[a], "metadata", h[MetadataAt(h, a)])
  ELSE SetTop(h[a], "metadata",
              SetTop(h[MetadataAt(h, a)], "signature", h[SignatureAt(h, a)]))
\* new objects holding a value: [heap, at]
Alloc(h, node) ==
  IF Get(node, "metadata").k = "obj"
    THEN IF Get(Get(node, "metadata"), "signature").k = "obj"
           THEN [heap |-> h \o <<Get(Get(node, "metadata"), "signature"),
                                 SetTop(Get(node, "metadata"), "signature",
                                        Ref(Len(h) + 1)),
                                 SetTop(node, "metadata", Ref(Len(h) + 2))>>,
                 at |-> Len(h) + 3]
           ELSE [heap |-> h \o <<Get(node, "metadata"),
                                 SetTop(node, "metadata", Ref(Len(h) + 1))>>,
                 at |-> Len(h) + 2]
    ELSE [heap |-> Append(h, node), at |-> Len(h) + 1]

\* const document = doc, without the copy
CopyDocAlias(h, a) == [heap |-> h, at |-> a]
\* const document = { ...doc }: a new document that shares doc.metadata
CopyDocShallow(h, a) == [heap |-> Append(h, h[a]), at |-> Len(h) + 1]
\* const document = JSON.parse(JSON.stringify(doc)): [heap, at]
CopyDoc(h, a) == Alloc(h, JsonClone(Load(h, a)))

\* if (document.metadata) { delete document.metadata[field] }
DeleteField(h, a, field) ==
  IF MetadataAt(h, a) = 0 THEN h
  ELSE [h EXCEPT ![MetadataAt(h, a)] = Delete(@, field)]

\* document.metadata = { ...document.metadata, [field]: value }
AssignMetadata(h, a, field, value) ==
  [Append(h, Obj(SetEntry(Spread(Get(Load(h, a), "metadata")), field, value)))
     EXCEPT ![a] = SetTop(h[a], "metadata", Ref(Len(h) + 1))]

\* the operations called, and the key pair the signing calls use
SyncOps == {"removeChecksum", "removeSignature"}
DocOps == {"addChecksum", "removeChecksum", "signDocument", "removeSignature"}
ReadOps == {"calculateChecksum", "verifyChecksum", "verifySignature"}
AllOps == DocOps \cup ReadOps \cup {"generateKeyPair"}
CallAlgorithm == "RS256"
CallKey == GenerateKeyPair(CallAlgorithm, "k0")

\* a call from its start to its first await: [heap, document, pending,
\* value, done]; document is the call's local object, pending the text it
\* computed before awaiting, value what it will resolve to
Begun(h, document, pending, value, done) ==
  [heap |-> h, document |-> document, pending |-> pending, value |-> value,
   done |-> done]
StartOf(h, op, input) ==
  CASE op = "addChecksum" ->
         Let(CopyDoc(h, input), LAMBDA c :
           Begun(c.heap, c.at, CalculateChecksum(Load(c.heap, c.at)).text, <<>>, FALSE))
    [] op = "removeChecksum" ->
         Let(CopyDoc(h, input), LAMBDA c :
           Begun(DeleteField(c.heap, c.at, "checksum"), c.at, <<>>, <<>>, TRUE))
    [] op = "signDocument" ->
         Let(CopyDoc(h, input), LAMBDA c :
         Let(DeleteField(c.heap, c.at, "signature"), LAMBDA h2 :
           Begun(h2, c.at, CreateCanonicalJson(Load(h2, c.at)), <<>>, FALSE)))
    [] op = "removeSignature" ->
         Let(CopyDoc(h, input), LAMBDA c :
           Begun(DeleteField(c.heap, c.at, "signature"), c.at, <<>>, <<>>, TRUE))
    [] op = "calculateChecksum" ->
         Begun(h, input, CalculateChecksum(Load(h, input)).text, <<>>, FALSE)
    [] op = "verifyChecksum" ->
         Begun(h, input, <<>>, VerifyChecksum(Load(h, input)), FALSE)
    [] op = "verifySignature" ->
         Begun(h, input, <<>>,
               VerifySignature(Load(h, input), NativeArg(CallKey.publicKey), atob),
               FALSE)
    [] OTHER -> Begun(h, 0, <<>>, <<>>, FALSE)

\* the object a call keeps a reference to across its awaits besides its
\* local document: verifySignature keeps document.metadata.signature when
\* that is an object and the call goes on to verify
HeldOf(h, op, input) ==
  IF op = "verifySignature" /\ SignatureAt(h, input) # 0
    THEN Ref(SignatureAt(h, input))
    ELSE Undefined

\* the signature record signDocument makes for the canonical text
SignatureText(canonical) ==
  JsonStringify(SignatureInfo(CallAlgorithm,
    ArrayBufferToBase64(CryptoSign(AlgorithmConfig(CallAlgorithm), CallKey.privateKey,
                                   canonical, "n1").bytes),
    NoOptions, Now))

\* a call from its last await to its return: [heap, value]
EndOf(h, call, i) ==
  CASE call.op = "addChecksum" ->
         [heap |-> AssignMetadata(h, call.document, "checksum", Str(call.pending)),
          value |-> <<>>]
    [] call.op = "signDocument" ->
         [heap |-> AssignMetadata(h, call.document, "signature",
                                  Str(SignatureText(call.pending))),
          value |-> <<>>]
    [] call.op = "calculateChecksum" -> [heap |-> h, value |-> call.pending]
    [] call.op = "generateKeyPair" ->
         [heap |-> h, value |-> GenerateKeyPair(CallAlgorithm, KeyId(i))]
    [] call.op = "verifySignature" /\ call.held.k = "ref" ->
         [heap |-> h,
          value |-> VerifySignature(
                      SetNested(call.arg, "metadata", "signature",
                                h[AddrOf(h, call.held)]),
                      NativeArg(CallKey.publicKey), atob)]
    [] OTHER -> [heap |-> h, value |-> call.value]

\* the caller's document, allocated first for the value it was received
\* with, and the documents calls have returned
CallerDoc == Alloc(<<>>, ref).at
Returned == {i \in 1..Len(calls) : calls[i].done /\ calls[i].op \in DocOps}
\* the value of the object at a when the caller got it
OriginalAt(a) ==
  IF a = CallerDoc THEN doc
  ELSE calls[CHOOSE i \in Returned : calls[i].document = a].returned

StartCallOf(ops) ==
  \E op \in ops, input \in {CallerDoc} \cup {calls[i].document : i \in Returned} :
    \E r \in {StartOf(heap, op, input)} :
      /\ Len(calls) < MaxCalls
      /\ heap' = r.heap
      /\ calls' = Append(calls,
           [op |-> op, input |-> input, arg |-> OriginalAt(input),
            document |-> r.document, pending |-> r.pending, value |-> r.value,
            held |-> HeldOf(heap, op, input), done |-> r.done,
            returned |-> IF r.done THEN Load(r.heap, r.document) ELSE Undefined])
      /\ UNCHANGED <<lib, doc, ref, origin, keys, canon, sumRes, sigRes, tampers, signer, atob, last>>

StartCall == StartCallOf(AllOps)

FinishCall ==
  \E i \in 1..Len(calls) :
    \E r \in {EndOf(heap, calls[i], i)} :
      /\ ~calls[i].done
      /\ heap' = r.heap
      /\ calls' = [calls EXCEPT ![i] =
           [@ EXCEPT !.done = TRUE, !.value = r.value,
                     !.returned = IF calls[i].op \in DocOps
                                    THEN Load(r.heap, calls[i].document)
                                    ELSE Undefined]]
      /\ UNCHANGED <<lib, doc, ref, origin, keys, canon, sumRes, sigRes, tampers, signer, atob, last>>

\* the caller holds one document object; no call has been made
InitCallsOn(given) ==
  /\ LibInit
  /\ atob = TRUE
  /\ doc \in given
  /\ ref = doc
  /\ origin = "init"
  /\ keys = <<>>
  /\ canon = [ref |-> NoCanon, doc |-> NoCanon]
  /\ sumRes = NoSum
  /\ sigRes = NoSig
  /\ tampers = 0
  /\ signer = NoSigner
  /\ heap = Alloc(<<>>, doc).heap
  /\ calls = <<>>
  /\ last = NoCall

InitCalls == InitCallsOn(InitDocs)

NextCalls == StartCall \/ FinishCall

SpecCalls == InitCalls /\ [][NextCalls]_vars

\* what a call returns when no other call is made: the operation applied
\* to the value its input had when the caller got it
Alone(call, i) ==
  CASE call.op = "addChecksum" -> AddChecksum(call.arg).v
    [] call.op = "removeChecksum" -> RemoveChecksum(call.arg).v
    [] call.op = "signDocument" ->
         SignDocument(call.arg, NativeArg(CallKey.privateKey), CallAlgorithm, NoOptions,
                      "n1", Now, atob).v
    [] call.op = "removeSignature" -> RemoveSignature(call.arg).v
    [] call.op = "calculateChecksum" -> CalculateChecksum(call.arg).text
    [] call.op = "verifyChecksum" -> VerifyChecksum(call.arg)
    [] call.op = "verifySignature" ->
         VerifySignature(call.arg, NativeArg(CallKey.publicKey), atob)
    [] OTHER -> GenerateKeyPair(CallAlgorithm, KeyId(i))
\* what a returned call gave its caller
Outcome(call) == IF call.op \in DocOps THEN call.returned ELSE call.value
\* the objects a document consists of
ObjectsOf(h, a) ==
  {a} \cup (IF MetadataAt(h, a) = 0 THEN {} ELSE {MetadataAt(h, a)})
      \cup (IF SignatureAt(h, a) = 0 THEN {} ELSE {SignatureAt(h, a)})

\* C11: addChecksum, removeChecksum, signDocument and removeSignature do
\* not modify the object they are passed: after every sequence of calls the
\* caller's document and every document returned earlier have the value
\* they had when the caller got them, and a returned document shares no
\* object with the input of the call.
C11_InputNotModified ==
  /\ Load(heap, CallerDoc) = doc
  /\ \A i \in Returned :
       /\ Load(heap, calls[i].document) = calls[i].returned
       /\ ObjectsOf(heap, calls[i].document) \cap ObjectsOf(heap, calls[i].input) = {}

\* signDocument has returned for a document that addChecksum returned
C11_Witness ==
  \E i, j \in Returned :
    /\ calls[i].op = "addChecksum" /\ calls[i].input = CallerDoc
    /\ calls[j].op = "signDocument" /\ calls[j].input = calls[i].document
    /\ HasMetadata(doc)

\* C18: with calls of every operation in flight at the same time, on the
\* caller's document or on documents returned by earlier calls, and under
\* every order in which they pass their await points, each call returns
\* what the operation returns for its argument when it is the only call.
C18_CallsIndependent ==
  \A i \in 1..Len(calls) : calls[i].done => Outcome(calls[i]) = Alone(calls[i], i)

\* addChecksum and signDocument were called on the caller's document and
\* both returned; signDocument was started while addChecksum was awaiting
\* (its copy was allocated before addChecksum made its metadata object)
C18_Witness ==
  /\ Len(calls) = 2
  /\ calls[1].op = "addChecksum" /\ calls[1].done /\ calls[1].input = CallerDoc
  /\ calls[2].op = "signDocument" /\ calls[2].done /\ calls[2].input = CallerDoc
  /\ MetadataAt(heap, calls[1].document) > calls[2].document

(***************************************************************************)
(* Checksums and signatures on the same document                           *)
(***************************************************************************)
OneFamily == {"RS256"}
ObjectOnly == {"object"}

\* checksums and signatures added, replaced and removed in any order, and
\* both verified
NextDocs ==
  \/ GenerateKeyPairStep(OneFamily)
  \/ AddChecksumStep
  \/ SignDocumentStep(NotEmbedded, OneNonce, Defaults)
  \/ RemoveChecksumStep
  \/ RemoveSignatureStep
  \/ VerifyChecksumStep
  \/ VerifySignatureStep(ObjectOnly, GeneratedOnly)

SpecDocs == Init /\ [][NextDocs]_vars

ChecksumOps == {"addChecksum", "removeChecksum"}
SignatureOps == {"signDocument", "removeSignature"}
\* the working copy is the document the last call returned
AsReturned == last.op # "" /\ doc = last.output
\* what verifySignature answers, without the bookkeeping of the step
Verdict(res) == [rejected |-> res.rejected, valid |-> res.valid,
                 error |-> res.error, info |-> res.info]

\* C12: an operation on one artifact leaves the verification of the other
\* as it was: after addChecksum or removeChecksum, verifySignature answers
\* for the returned document what it answers for the argument, and after
\* signDocument or removeSignature, verifyChecksum does; a document that
\* verified before the other artifact was added verifies after.
C12_ArtifactsIndependent ==
  /\ (sigRes.done /\ AsReturned /\ last.op \in ChecksumOps) =>
       Verdict(sigRes) = VerifySignature(last.input, sigRes.key, atob)
  /\ (sumRes.done /\ AsReturned /\ last.op \in SignatureOps) =>
       [sumRes EXCEPT !.done = FALSE] = [done |-> FALSE] @@ VerifyChecksum(last.input)

\* a document signed, then checksummed: both verifications pass
C12_Witness ==
  /\ AsReturned
  /\ last.op = "addChecksum"
  /\ VerifyChecksum(last.input).valid = FALSE
  /\ sumRes.done /\ sumRes.valid
  /\ sigRes.done /\ sigRes.valid

\* the last call signed a document that carried a signature
Resigned == last.op = "signDocument" /\ Truthy(StoredSignature(last.input))
\* the bytes that a base64 signature text signs
SignedData(signature) == DecodeSignature(signature, TRUE).bytes[4]

\* C13: signDocument on a document that carries a signature signs the
\* canonical bytes of the document without that signature; what it returns
\* is the argument with metadata.signature replaced, the checksum and every
\* other field kept; verifySignature accepts it with the public key of the
\* pair that signed last and with no other generated key.
C13_ResignReplaces ==
  Resigned =>
    /\ StoredRecord(last.output).ok
    /\ SignedData(Get(StoredRecord(last.output).v, "signature")) =
         Flatten(CreateCanonicalJson(RemoveSignature(last.input).v))
    /\ RemoveSignature(last.output).v = RemoveSignature(last.input).v
    /\ StoredChecksum(last.output) = StoredChecksum(last.input)
    /\ (sigRes.done /\ AsReturned) => (sigRes.valid <=> VerifiedWith(signer.idx))

\* a checksummed document signed with the first key pair and signed again
\* with the second: the first pair's public key no longer verifies it
C13_Witness ==
  /\ Resigned
  /\ AsReturned
  /\ Truthy(StoredChecksum(last.input))
  /\ \E publicKey \in PublicArgs(1) : VerifySignature(last.input, publicKey, atob).valid
  /\ signer.idx = 2
  /\ sigRes.done /\ VerifiedWith(1) /\ ~sigRes.valid

\* d with one field of its metadata taken away, d itself when it has no
\* metadata
Without(d, field) ==
  IF HasMetadata(d) THEN SetTop(d, "metadata", Delete(Get(d, "metadata"), field)) ELSE d
\* d, with an empty metadata object when it has none
WithMetadata(d) == IF HasMetadata(d) THEN d ELSE SetTop(d, "metadata", Obj(<<>>))

\* C14: what addChecksum(d) returns has metadata.checksum equal to
\* calculateChecksum(d) and is d in everything else: the other metadata
\* fields, an existing signature among them, and the other top-level
\* fields are those of d, and metadata exists also when d had none.
C14_AddChecksumFrame ==
  last.op = "addChecksum" =>
    /\ HasMetadata(last.output)
    /\ CalculateChecksum(last.input).ok
    /\ StoredChecksum(last.output) = Str(CalculateChecksum(last.input).text)
    /\ Without(last.output, "checksum") = Without(WithMetadata(last.input), "checksum")
    /\ StoredSignature(last.output) = StoredSignature(last.input)

\* a checksum added to a signed document that carries notes
C14_Witness ==
  /\ last.op = "addChecksum"
  /\ AsReturned
  /\ Truthy(Get(Get(last.input, "metadata"), "notes"))
  /\ StoredRecord(last.input).ok
  /\ StoredSignature(doc) = StoredSignature(last.input)
  /\ StoredChecksum(doc) # StoredChecksum(last.input)

RemovedField == IF last.op = "removeChecksum" THEN "checksum" ELSE "signature"
OtherField == IF last.op = "removeChecksum" THEN "signature" ELSE "checksum"
Removals == {"removeChecksum", "removeSignature"}

\* C15: removeChecksum returns its argument without metadata.checksum and
\* removeSignature returns it without metadata.signature; every other
\* metadata entry, the other integrity field among them, and every other
\* field is returned as it was, and the argument is returned as it was when
\* it has no metadata or its metadata has no such field.
C15_RemoveFrame ==
  last.op \in Removals =>
    /\ last.output = Without(last.input, RemovedField)
    /\ ~HasKey(MetaEntries(last.output), RemovedField)
    /\ Get(Get(last.output, "metadata"), OtherField)
         = Get(Get(last.input, "metadata"), OtherField)
    /\ WithoutMetadata(last.output) = WithoutMetadata(last.input)
    /\ HasMetadata(last.output) = HasMetadata(last.input)
    /\ ~HasKey(MetaEntries(last.input), RemovedField) => last.output = last.input

\* the signature removed from a signed and checksummed document: the
\* checksum stays and still verifies
C15_Witness ==
  /\ last.op = "removeSignature"
  /\ AsReturned
  /\ StoredRecord(last.input).ok
  /\ Truthy(StoredChecksum(doc))
  /\ sumRes.done /\ sumRes.valid

(***************************************************************************)
(* verifyChecksum without a stored checksum                                *)
(***************************************************************************)
\* C16: verifyChecksum on a document object never throws and reports the
\* freshly computed checksum as actual; for a document without metadata or
\* whose metadata has no checksum it returns valid = false with expected =
\* null; valid is true exactly when expected is the text that actual is.
C16_MissingChecksum ==
  sumRes.done =>
    /\ sumRes.ok
    /\ sumRes.actual = CalculateChecksum(doc).text
    /\ StoredChecksum(doc) = Undefined => (~sumRes.valid /\ sumRes.expected = Null)
    /\ sumRes.valid <=> (sumRes.expected = Str(sumRes.actual))

\* a document without metadata was verified
C16_Witness ==
  /\ sumRes.done
  /\ ~HasMetadata(doc)
  /\ ~sumRes.valid
  /\ sumRes.expected = Null
  /\ sumRes.actual # <<>>

(***************************************************************************)
(* createCanonicalJson on values that JSON cannot represent                *)
(***************************************************************************)
\* documents that hold a number that is not finite, a function or a
\* reference to themselves, canonicalized
NextEncode ==
  \/ SetUnrepresentable
  \/ SetName
  \/ CreateCanonicalJsonStep

SpecEncode == Init /\ [][NextEncode]_vars

RECURSIVE HoldsUnrepresentable(_)
HoldsUnrepresentable(node) ==
  \/ node \in Unrepresentable
  \/ \E i \in 1..Len(node.e) : HoldsUnrepresentable(node.e[i][2])

\* C17: createCanonicalJson fails, and returns no canonical string, for
\* every document that holds a reference to itself, a number that is not
\* finite or a function.
C17_Original ==
  (canon.doc.done /\ HoldsUnrepresentable(doc)) => canon.doc.failed

(***************************************************************************)
(* The signature record                                                    *)
(***************************************************************************)
\* documents signed under each algorithm with every combination of options
NextOptions ==
  \/ GenerateKeyPairStep(Algorithms)
  \/ (~Protected /\ SignDocumentStep(EmbeddedKeys, OneNonce, AnyOptions))

SpecOptions == Init /\ [][NextOptions]_vars

\* the last call was signDocument and the working copy is what it returned
JustSigned == last.op = "signDocument" /\ AsReturned
OptionalFields == {"publicKey", "keyId"}
\* the record has algorithm, a base64 signature and, unless
\* options.includeTimestamp is false, timestamp
RecordBasics ==
  /\ StoredSignature(doc).k = "str"
  /\ HasRecord
  /\ Get(Record, "algorithm") = Str(<<last.algorithm>>)
  /\ Get(Record, "signature").k = "str"
  /\ Head(Get(Record, "signature").s) = B64Tag
  /\ HasKey(Record.e, "timestamp") <=> last.options.includeTimestamp # Lit("false")

\* C19 as stated: the record has publicKey and keyId exactly when the
\* caller supplied them, with the supplied values.
C19_Original ==
  JustSigned =>
    /\ RecordBasics
    /\ \A f \in OptionalFields :
         /\ HasKey(Record.e, f) <=> last.options[f] # Undefined
         /\ HasKey(Record.e, f) => Get(Record, f) = last.options[f]

\* C19: the signature record stored as a JSON string at metadata.signature
\* has algorithm equal to the algorithm argument and a base64 signature; it
\* has timestamp unless options.includeTimestamp is false; it has publicKey
\* and keyId exactly when the caller supplied a value that is not empty,
\* with the supplied values.
C19_SignatureRecord ==
  JustSigned =>
    /\ RecordBasics
    /\ \A f \in OptionalFields :
         /\ HasKey(Record.e, f) <=> Truthy(last.options[f])
         /\ HasKey(Record.e, f) => Get(Record, f) = last.options[f]

\* an ES384 signature with a key id, an embedded public key and no
\* timestamp
C19_Witness ==
  /\ JustSigned
  /\ last.algorithm = "ES384"
  /\ last.options.includeTimestamp = Lit("false")
  /\ Get(Record, "keyId") = Str(<<"key-123">>)
  /\ Get(Record, "publicKey") = Str(PemPublicKey(KeyPairOf(signer.idx)))
  /\ ~HasKey(Record.e, "timestamp")

(***************************************************************************)
(* A signature field that is not a signature record                        *)
(***************************************************************************)
\* documents whose metadata.signature is overwritten with a text that is
\* no record, verified with and without a key, as object and as JSON text
NextFormat ==
  \/ GenerateKeyPairStep(OneFamily)
  \/ SetSignature(BrokenSigs)
  \/ VerifySignatureStep(JsonForms, MissingOrBad)

SpecFormat == InitWith(InitDocs, BOOLEAN) /\ [][NextFormat]_vars

\* the last verification read a document whose metadata.signature is a
\* string that JSON.parse refuses
UnparsableSignature ==
  /\ sigRes.done
  /\ sigRes.form \in JsonForms
  /\ StoredSignature(doc).k = "str"
  /\ ~JsonParse(StoredSignature(doc).s).ok
InvalidFormatResult ==
  /\ ~sigRes.rejected
  /\ ~sigRes.valid
  /\ sigRes.error = InvalidFormat
  /\ sigRes.info = Undefined

\* C20 as stated: whenever metadata.signature is present and is not valid
\* JSON, verifySignature returns valid = false with the 'Invalid signature
\* format' error.
C20_Original == UnparsableSignature => InvalidFormatResult

\* C20: whenever metadata.signature is a non-empty string that is not
\* valid JSON, verifySignature returns valid = false with the 'Invalid
\* signature format' error, whatever key it is given: nothing is thrown
\* and the error is not the generic 'Verification failed'.
C20_InvalidFormat ==
  (UnparsableSignature /\ StoredSignature(doc).s # <<>>) => InvalidFormatResult

\* a truncated record verified from the JSON text of the document with a
\* generated public key
C20_Witness ==
  /\ UnparsableSignature
  /\ StoredSignature(doc) = Str(<<"{">>)
  /\ sigRes.form = "text"
  /\ sigRes.key \in GeneratedPublicArgs
  /\ InvalidFormatResult

(***************************************************************************)
(* verifySignature on an unsigned document                                 *)
(***************************************************************************)
\* C21: verifySignature on a document object without metadata, or whose
\* metadata has no signature, returns valid = false with the 'No signature
\* found in document' error, with no key argument, with a malformed one
\* and with a generated public key alike; nothing is thrown.
C21_NoSignature ==
  (sigRes.done /\ sigRes.form = "object" /\ StoredSignature(doc) = Undefined) =>
    /\ ~sigRes.rejected
    /\ ~sigRes.valid
    /\ sigRes.error = NoSignatureFound
    /\ sigRes.info = Undefined

\* a document with notes and no signature verified with a generated
\* public key
C21_Witness ==
  /\ sigRes.done /\ sigRes.form = "object"
  /\ HasMetadata(doc)
  /\ StoredSignature(doc) = Undefined
  /\ sigRes.key \in GeneratedPublicArgs
  /\ sigRes.error = NoSignatureFound

(***************************************************************************)
(* signing.ts: generateCertificate                                         *)
(***************************************************************************)
MaxCerts == 2
HoursPerDay == 24
DefaultValidityDays == 365
SerialLength == 16

\* new Date(t).toISOString() and new Date(text).getTime(), t in hours: the
\* text holds the calendar day and the time of day
ToISOString(t) == [date |-> t \div HoursPerDay, time |-> t % HoursPerDay]
GetTime(text) == text.date * HoursPerDay + text.time

\* n.toString(16).toUpperCase() for 0 <= n < 16
HexDigits == <<"0", "1", "2", "3", "4", "5", "6", "7",
               "8", "9", "A", "B", "C", "D", "E", "F">>
HexDigit(n) == HexDigits[n + 1]
RECURSIVE Join(_)
\* parts.join('')
Join(parts) == IF parts = <<>> THEN "" ELSE Head(parts) \o Join(Tail(parts))

\* options.validityDays: a number, or left out
NoDays == [given |-> FALSE, n |-> 0]
Days(n) == [given |-> TRUE, n |-> n]
\* options.validityDays || 365
ValidityDays(options) ==
  IF options.validityDays.given /\ options.validityDays.n # 0
    THEN options.validityDays.n
    ELSE DefaultValidityDays

\* generateCertificate(options); id names the key material generatePemKeyPair
\* makes, now is the value of new Date(), random the sixteen values of
\* Math.floor(Math.random() * 16)
GenerateCertificate(options, id, now, random) ==
  Let(IF Truthy(options.algorithm) THEN options.algorithm.s[1] ELSE "RS256",
      LAMBDA algorithm :
  Let(GenerateKeyPair(algorithm, id), LAMBDA keyPair :
    [certificate |->
       [subject |-> options.subject,
        issuer |-> IF Truthy(options.issuer) THEN options.issuer ELSE options.subject,
        publicKey |-> PemPublicKey(keyPair),
        validFrom |-> ToISOString(now),
        validTo |-> ToISOString(now + ValidityDays(options) * HoursPerDay),
        algorithm |-> algorithm,
        serialNumber |-> Join([i \in 1..SerialLength |-> HexDigit(random[i])])],
     privateKey |-> PemPrivateKey(keyPair)]))

\* the options the certificates are asked with
Subjects == {Str(<<"CN=Test">>)}
Issuers == {Undefined, Str(<<"CN=Root CA">>)}
CertAlgorithms == {Undefined, Str(<<"ES256">>)}
Validities == {NoDays, Days(0), Days(30), Days(-1)}
CertOptions ==
  [subject : Subjects, issuer : Issuers, algorithm : CertAlgorithms,
   validityDays : Validities]
\* what sixteen calls of Math.random can return, as digits
Randoms == {[i \in 1..SerialLength |-> 8], [i \in 1..SerialLength |-> (7 * i) % 16]}

\* certs.push(await generateCertificate(options))
GenerateCertificateStep ==
  \E options \in CertOptions, random \in Randoms :
    /\ Len(certs) < MaxCerts
    /\ Len(keys) < MaxKeys
    /\ keys' = Append(keys, IF Truthy(options.algorithm)
                              THEN options.algorithm.s[1] ELSE "RS256")
    /\ certs' = Append(certs,
                  [options |-> options, now |-> clock,
                   result |-> GenerateCertificate(options, KeyId(Len(keys) + 1),
                                                   clock, random)])
    /\ UNCHANGED <<docs, clock, pemIo, util>>

\* time passes
Tick ==
  /\ clock < Start + MaxHours
  /\ clock' = clock + 1
  /\ UNCHANGED <<docs, keys, certs, pemIo, util>>

NextCert == GenerateCertificateStep \/ Tick

\* the functions that take no document run beside one document
OneDoc == {Obj(BaseEntries)}
InitLib == InitWith(OneDoc, WithAtob)
SpecCert == InitLib /\ [][NextCert]_vars

\* the hours between validFrom and validTo of a certificate
ValidFor(certificate) == GetTime(certificate.validTo) - GetTime(certificate.validFrom)

\* C22: every certificate has validFrom at the time of the call and validTo
\* validityDays x 24 h later for every validityDays passed, 0 included, and
\* 365 days later when validityDays is left out.
C22_Original ==
  \A i \in 1..Len(certs) :
    /\ certs[i].result.certificate.validFrom = ToISOString(certs[i].now)
    /\ ValidFor(certs[i].result.certificate) =
         HoursPerDay * (IF certs[i].options.validityDays.given
                          THEN certs[i].options.validityDays.n
                          ELSE DefaultValidityDays)

MaxBytes == 100
Lengths == {0, 1, 2, 3, 46, 47, 48, 49, 95, 96, 97, MaxBytes}
\* the i-th byte of the sequence a seed stands for
Seeds == {0, 77, 85, 255}
BytesOf(seed, n) == [i \in 1..n |-> (seed * i + seed) % 256]

\* pemIo = arrayBufferToPem(bytes, type)
ExportPemStep ==
  \E n \in Lengths, seed \in Seeds, type \in PemTypes :
    /\ pemIo.step = "none"
    /\ pemIo' = [NoPem EXCEPT !.step = "exported", !.bytes = BytesOf(seed, n),
                            !.type = type,
                            !.text = PemOfBytes(BytesOf(seed, n), type)]
    /\ UNCHANGED <<docs, keys, clock, certs, util>>

\* pemToArrayBuffer(pem)
ImportPemStep ==
  /\ pemIo.step = "exported"
  /\ pemIo' = [pemIo EXCEPT !.step = "imported", !.back = BytesOfPem(pemIo.text, atob)]
  /\ UNCHANGED <<docs, keys, clock, certs, util>>

NextPem ==
  \/ GenerateKeyPairStep(Algorithms)
  \/ ExportPemStep
  \/ ImportPemStep

InitPem == InitWith(UnsignedDocs, BOOLEAN)
SpecPem == InitPem /\ [][NextPem]_vars

\* the lines between the markers of a PEM text, and where they end
Body(text) == SubSeq(text, 3, Len(text) - 2)
Breaks(text) == {i \in 1..Len(Body(text)) : Body(text)[i] = NL}
LastLine(text) ==
  Len(Body(text)) - (IF Breaks(text) = {} THEN 0
                     ELSE CHOOSE i \in Breaks(text) : \A j \in Breaks(text) : j <= i)

\* C24: a PEM text is the BEGIN marker of its type, the base64 body in
\* lines of exactly 64 characters but for the last, which has 1 to 64 (none
\* for no bytes), and the END marker; decoding the text gives the exported
\* bytes back, with and without atob; and the PEM texts of a generated key
\* pair import as the keys of that pair.
C24_PemRoundTrip ==
  /\ pemIo.step # "none" =>
       /\ SubSeq(pemIo.text, 1, 2) = <<PemBegin(pemIo.type), NL>>
       /\ SubSeq(pemIo.text, Len(pemIo.text) - 1, Len(pemIo.text)) = <<NL, PemEnd(pemIo.type)>>
       /\ \A i \in 1..Len(Body(pemIo.text)) :
            (Body(pemIo.text)[i] = NL) <=> (i % (LineWidth + 1) = 0)
       /\ LastLine(pemIo.text) <= LineWidth
       /\ (pemIo.bytes # <<>>) => LastLine(pemIo.text) >= 1
       /\ \A i \in 1..Len(Body(pemIo.text)) :
            Body(pemIo.text)[i] \in Range(Base64Chars) \cup {Pad, NL}
  /\ pemIo.step = "imported" => pemIo.back = [ok |-> TRUE, bytes |-> pemIo.bytes]
  /\ \A i \in 1..Len(keys) :
       /\ ImportPrivateKey(PemPrivateKey(KeyPairOf(i)), keys[i], atob)
            = [ok |-> TRUE, key |-> KeyPairOf(i).privateKey]
       /\ ImportPublicKey(PemPublicKey(KeyPairOf(i)), keys[i], atob)
            = [ok |-> TRUE, key |-> KeyPairOf(i).publicKey]

\* 97 bytes exported as a private key and imported again without atob: two
\* full lines and a line of four characters
C24_Witness ==
  /\ pemIo.step = "imported"
  /\ Len(pemIo.bytes) = 97
  /\ pemIo.type = "PRIVATE KEY"
  /\ ~atob
  /\ Cardinality(Breaks(pemIo.text)) = 2
  /\ LastLine(pemIo.text) = 4
  /\ pemIo.back.bytes = pemIo.bytes
  /\ Len(keys) = 2

(***************************************************************************)
(* types.ts: findRateByPrefix                                              *)
(***************************************************************************)
\* A card has fields, a sequence of field names (empty for a card without
\* fields), and rates, a sequence of entries; an entry is a sequence of
\* values.  A string is the sequence of its characters.
MaxRates == 2
Digits == {"0", "1", "2", "3", "4", "5", "6", "7", "8", "9"}

\* fields.findIndex(f => f.name === name), counted from 0; -1 for none
FindIndex(fields, name) ==
  IF \E i \in 1..Len(fields) : fields[i] = name
    THEN (CHOOSE i \in 1..Len(fields) :
            fields[i] = name /\ \A j \in 1..(i - 1) : fields[j] # name) - 1
    ELSE -1
\* entry[index], index counted from 0
At(entry, index) == IF index + 1 \in 1..Len(entry) THEN entry[index + 1] ELSE Undefined
\* String(value)
StringOf(value) ==
  IF value.k \in {"str", "lit"} THEN value.s ELSE <<"undefined">>
\* text.startsWith(prefix)
StartsWith(text, prefix) ==
  Len(prefix) <= Len(text) /\ SubSeq(text, 1, Len(prefix)) = prefix
\* number.replace(/[^0-9]/g, '')
CleanNumber(number) == SelectSeq(number, LAMBDA c : c \in Digits)

NoMatch == [found |-> FALSE, entry |-> <<>>, index |-> -1, prefix |-> <<>>]

RECURSIVE ForEachRate(_, _, _, _, _, _)
\* rates.forEach((entry, index) => ...) from the entry at index on
ForEachRate(rates, index, prefixIndex, cleanNumber, bestMatch, longestPrefix) ==
  IF index >= Len(rates) THEN bestMatch
  ELSE Let(StringOf(At(rates[index + 1], prefixIndex)), LAMBDA prefix :
         IF StartsWith(cleanNumber, prefix) /\ Len(prefix) > longestPrefix
           THEN ForEachRate(rates, index + 1, prefixIndex, cleanNumber,
                            [found |-> TRUE, entry |-> rates[index + 1],
                             index |-> index, prefix |-> prefix],
                            Len(prefix))
           ELSE ForEachRate(rates, index + 1, prefixIndex, cleanNumber,
                            bestMatch, longestPrefix))

\* findRateByPrefix(card, number)
FindRateByPrefix(card, number) ==
  Let(FindIndex(card.fields, "prefix"), LAMBDA prefixIndex :
    IF prefixIndex = -1 THEN NoMatch
    ELSE ForEachRate(card.rates, 0, prefixIndex, CleanNumber(number), NoMatch, 0))

\* a number: the value and the text String() gives for it
Num(text) == [k |-> "lit", s |-> text, e |-> <<>>]
\* the values of the two columns of an entry, the field lists and the
\* numbers looked up
Prefixes == {Str(<<>>), Str(<<"4">>), Str(<<"4", "4">>), Str(<<"1">>), Num(<<"4", "4">>)}
FieldLists == {<<"prefix", "name">>, <<"name", "prefix">>, <<"name", "rate">>, <<>>}
Entries == {<<p, q>> : p \in Prefixes, q \in Prefixes}
Cards ==
  [fields : FieldLists,
   rates : UNION {[1..n -> Entries] : n \in 0..MaxRates}]
Numbers == {<<"+", "4", "4", " ", "2">>, <<"4", "1">>, <<"9", "9">>, <<>>}

\* util = findRateByPrefix(card, number)
FindRateByPrefixStep ==
  \E card \in Cards, number \in Numbers :
    /\ util = NoUtil
    /\ util' = [fn |-> "findRateByPrefix", card |-> card, number |-> number,
                result |-> FindRateByPrefix(card, number)]
    /\ UNCHANGED <<docs, keys, clock, certs, pemIo>>

\* the result is read and dropped
DropResult ==
  /\ util # NoUtil
  /\ util' = NoUtil
  /\ UNCHANGED <<docs, keys, clock, certs, pemIo>>

NextRate == FindRateByPrefixStep \/ DropResult

SpecRate == InitLib /\ [][NextRate]_vars

\* the entries of the card whose prefix starts the cleaned number, by
\* position, and the length of the prefix of the entry at a position
PrefixAt(card, i) == StringOf(At(card.rates[i], FindIndex(card.fields, "prefix")))
Matching(card, number) ==
  IF FindIndex(card.fields, "prefix") = -1 THEN {}
  ELSE {i \in 1..Len(card.rates) : StartsWith(CleanNumber(number), PrefixAt(card, i))}
Longest(card, number) ==
  {i \in Matching(card, number) :
     \A j \in Matching(card, number) : Len(PrefixAt(card, j)) <= Len(PrefixAt(card, i))}
First(set) == CHOOSE i \in set : \A j \in set : i <= j

\* C25: findRateByPrefix returns the first of the entries with the longest
\* prefix among the entries whose prefix starts the number without its
\* non-digits, with its index and prefix, and null when no entry has such
\* a prefix or the card has no 'prefix' field.
C25_Original ==
  util.fn = "findRateByPrefix" =>
    IF Matching(util.card, util.number) = {}
      THEN util.result = NoMatch
      ELSE util.result =
             [found |-> TRUE,
              entry |-> util.card.rates[First(Longest(util.card, util.number))],
              index |-> First(Longest(util.card, util.number)) - 1,
              prefix |-> PrefixAt(util.card, First(Longest(util.card, util.number)))]

(***************************************************************************)
(* types.ts: calculateCallCost                                             *)
(***************************************************************************)
\* Durations and intervals are whole seconds; money is counted in
\* ten-thousandths.  Absent stands for a property or an entry value that is
\* left out (the values that are there are not negative).
Absent == -1
MaxDuration == 121
MoneyUnit == 10000

\* Number(rateEntry[index]) || otherwise: 0 and the NaN of a missing value
\* give otherwise
NumberOr(rateEntry, index, otherwise) ==
  IF index + 1 \in 1..Len(rateEntry) /\ rateEntry[index + 1] \notin {0, Absent}
    THEN rateEntry[index + 1]
    ELSE otherwise
\* value || otherwise for a property of card.rate
PropertyOr(value, otherwise) == IF value \in {0, Absent} THEN otherwise ELSE value

\* Math.ceil(a / b), Math.floor(a / b) and Math.round(a / b) for b > 0
CeilDiv(a, b) == -((-a) \div b)
FloorDiv(a, b) == a \div b
RoundDiv(a, b) == (2 * a + b) \div (2 * b)
\* Math.pow(10, precision) for precision 0..4
Pow10(precision) ==
  CASE precision = 0 -> 1 [] precision = 1 -> 10 [] precision = 2 -> 100
    [] precision = 3 -> 1000 [] OTHER -> 10000

\* billable seconds rounded up to the next multiple of the billing interval
\* whatever the initial interval
BillableSecondsNoInitial(durationSeconds, initialInterval, billingInterval) ==
  IF durationSeconds > 0
    THEN CeilDiv(durationSeconds, billingInterval) * billingInterval
    ELSE 0

\* the billable seconds of calculateCallCost
BillableSeconds(durationSeconds, initialInterval, billingInterval) ==
  IF durationSeconds > 0
    THEN IF durationSeconds <= initialInterval
           THEN initialInterval
           ELSE initialInterval
                  + CeilDiv(durationSeconds - initialInterval, billingInterval)
                      * billingInterval
    ELSE 0

\* totalCost * factor after rounding: amount is 60 x the cost in money
\* units, so the cost times factor is amount * factor / (60 * MoneyUnit)
Rounded(rounding, amount, factor) ==
  CASE rounding = "up" -> CeilDiv(amount * factor, 60 * MoneyUnit)
    [] rounding = "down" -> FloorDiv(amount * factor, 60 * MoneyUnit)
    [] rounding \in {"nearest", "half_up"} -> RoundDiv(amount * factor, 60 * MoneyUnit)
    [] OTHER -> RoundDiv(amount * factor - 60, 60 * MoneyUnit)

\* initialInterval and billingInterval of calculateCallCost
InitialInterval(card, rateEntry) ==
  IF FindIndex(card.fields, "initial_interval") >= 0
    THEN NumberOr(rateEntry, FindIndex(card.fields, "initial_interval"), 60)
    ELSE PropertyOr(card.rate.default_initial, 60)
BillingInterval(card, rateEntry) ==
  IF FindIndex(card.fields, "billing_interval") >= 0
    THEN NumberOr(rateEntry, FindIndex(card.fields, "billing_interval"), 60)
    ELSE PropertyOr(card.rate.default_pulse, 60)

\* calculateCallCost(card, rateEntry, durationSeconds); totalCost is given
\* as a count of units of 1 / factor
CalculateCallCost(card, rateEntry, durationSeconds) ==
  Let(FindIndex(card.fields, "rate"), LAMBDA rateIndex :
  Let(FindIndex(card.fields, "connection_fee"), LAMBDA connFeeIndex :
  Let(IF rateIndex >= 0 THEN NumberOr(rateEntry, rateIndex, 0) ELSE 0, LAMBDA rate :
  Let(IF connFeeIndex >= 0 THEN NumberOr(rateEntry, connFeeIndex, 0)
      ELSE PropertyOr(card.rate.connection, 0), LAMBDA connectionFee :
  Let(BillableSeconds(durationSeconds, InitialInterval(card, rateEntry),
                      BillingInterval(card, rateEntry)),
      LAMBDA billableSeconds :
  Let(IF card.rate.precision = Absent THEN 4 ELSE card.rate.precision, LAMBDA precision :
  Let(IF card.charge.rounding # "" THEN card.charge.rounding
      ELSE IF card.rate.rounding # "" THEN card.rate.rounding ELSE "up",
      LAMBDA rounding :
    [rate |-> rate,
     connectionFee |-> connectionFee,
     duration |-> durationSeconds,
     billableSeconds |-> billableSeconds,
     totalCost |-> [units |-> Rounded(rounding, connectionFee * 60 + billableSeconds * rate,
                                      Pow10(precision)),
                    factor |-> Pow10(precision)]])))))))

\* the cards, entries and durations the cost is asked for
CostFields ==
  {<<"prefix", "name", "rate", "connection_fee", "initial_interval", "billing_interval">>,
   <<"prefix", "name", "rate">>}
Intervals == {Absent, 0, 1, 6, 30, 60}
RateConfigs ==
  {[default_initial |-> Absent, default_pulse |-> Absent, connection |-> Absent,
    precision |-> Absent, rounding |-> ""],
   [default_initial |-> 30, default_pulse |-> 6, connection |-> 10,
    precision |-> 2, rounding |-> "half_down"]}
CostCards == [fields : CostFields, rate : RateConfigs, charge : [rounding : {"", "down"}]]
CostEntries ==
  {<<0, 0, 100, 10, initial, pulse>> : initial \in Intervals, pulse \in Intervals}
Durations == {-1, 0, 1, 5, 6, 7, 29, 30, 31, 35, 36, 37, 59, 60, 61, 90, 119, 120, MaxDuration}

\* util = calculateCallCost(card, rateEntry, durationSeconds)
CalculateCallCostStep ==
  \E card \in CostCards, rateEntry \in CostEntries, durationSeconds \in Durations :
    /\ util = NoUtil
    /\ util' = [fn |-> "calculateCallCost", card |-> card, rateEntry |-> rateEntry,
                durationSeconds |-> durationSeconds,
                result |-> CalculateCallCost(card, rateEntry, durationSeconds)]
    /\ UNCHANGED <<docs, keys, clock, certs, pemIo>>

NextCost == CalculateCallCostStep \/ DropResult

SpecCost == InitLib /\ [][NextCost]_vars

\* C26: with an initial interval I > 0 and a billing interval B > 0,
\* billableSeconds is 0 for a duration of 0 or less, I for a duration of 1
\* to I, and I plus the least multiple of B that covers the rest beyond;
\* so a positive duration is never billed short, and past the initial
\* interval it is billed less than one billing interval over.
C26_WholeIntervals ==
  (util.fn = "calculateCallCost"
     /\ InitialInterval(util.card, util.rateEntry) > 0
     /\ BillingInterval(util.card, util.rateEntry) > 0) =>
    Let(InitialInterval(util.card, util.rateEntry), LAMBDA initial :
    Let(BillingInterval(util.card, util.rateEntry), LAMBDA pulse :
    Let(util.result.duration, LAMBDA duration :
    Let(util.result.billableSeconds, LAMBDA billable :
      /\ duration <= 0 => billable = 0
      /\ (0 < duration /\ duration <= initial) => billable = initial
      /\ duration > initial =>
           /\ (billable - initial) % pulse = 0
           /\ billable >= duration
           /\ billable - duration < pulse
      /\ duration > 0 => billable >= duration))))

\* 35 seconds on an entry of 30 / 6 seconds billed as 36
C26_Witness ==
  /\ util.fn = "calculateCallCost"
  /\ util.durationSeconds = 35
  /\ At(util.rateEntry, 4) = 30 /\ At(util.rateEntry, 5) = 6
  /\ Len(util.card.fields) = 6
  /\ util.result.billableSeconds = 36

(***************************************************************************)
(* csv: exportCardToCsv, parseCsv and importFromCsv                        *)
(***************************************************************************)
\* A CSV text is the sequence of its characters.  A rate value is a string
\* (Str of characters), a number (Num of the characters of its text), true,
\* false or null.
MaxRows == 2
Delimiter == ","
CR == "\r"
True == Lit("true")
False == Lit("false")
WordTrue == <<"t", "r", "u", "e">>
WordFalse == <<"f", "a", "l", "s", "e">>
WordNull == <<"n", "u", "l", "l">>

\* String(value) of a rate value
CsvString(value) ==
  CASE value = True -> WordTrue
    [] value = False -> WordFalse
    [] value.k \in {"str", "lit"} -> value.s
    [] OTHER -> <<"undefined">>

RECURSIVE JoinWith(_, _)
\* parts.join(separator)
JoinWith(parts, separator) ==
  IF parts = <<>> THEN <<>>
  ELSE IF Len(parts) = 1 THEN parts[1]
  ELSE parts[1] \o separator \o JoinWith(Tail(parts), separator)

\* str.replace(new RegExp(quote, 'g'), quote + quote)
DoubleQuotes(str) ==
  JoinWith([i \in 1..Len(str) |-> IF str[i] = Q THEN <<Q, Q>> ELSE <<str[i]>>], <<>>)

\* escapeValue(value, DEFAULT_OPTIONS)
EscapeValue(value) ==
  IF value \in {Null, Undefined} THEN <<>>
  ELSE IF \E i \in 1..Len(CsvString(value)) : CsvString(value)[i] \in {Delimiter, Q, NL, CR}
    THEN <<Q>> \o DoubleQuotes(CsvString(value)) \o <<Q>>
    ELSE CsvString(value)

\* exportCardToCsv(card) with the default options: [ok, csv]; a card without
\* fields throws
ExportCardToCsv(card) ==
  IF Len(card.fields) = 0 THEN [ok |-> FALSE, csv |-> <<>>]
  ELSE [ok |-> TRUE,
        csv |-> JoinWith(
          <<JoinWith([i \in 1..Len(card.fields) |-> EscapeValue(Str(card.fields[i]))],
                     <<Delimiter>>)>>
          \o [r \in 1..Len(card.rates) |->
                JoinWith([i \in 1..Len(card.fields) |->
                            EscapeValue(At(card.rates[r], i - 1))],
                         <<Delimiter>>)],
          <<NL>>)]

RECURSIVE SplitLines(_, _)
\* csv.split(/\r?\n/): the lines of the text after the lines in done and
\* the characters in line
SplitLines(csv, line) ==
  IF csv = <<>> THEN <<line>>
  ELSE IF Head(csv) = NL THEN <<line>> \o SplitLines(Tail(csv), <<>>)
  ELSE IF Head(csv) = CR /\ Len(csv) >= 2 /\ csv[2] = NL
    THEN <<line>> \o SplitLines(Tail(Tail(csv)), <<>>)
  ELSE SplitLines(Tail(csv), Append(line, Head(csv)))

\* line.trim() && !line.startsWith('#')
KeptLine(line) ==
  /\ \E i \in 1..Len(line) : line[i] \notin {" ", CR, "\t"}
  /\ line[1] # "#"

RECURSIVE ParseLine(_, _, _, _, _)
\* parseLine(line) from the character at i (counted from 0) on
ParseLine(line, i, current, inQuotes, values) ==
  IF i >= Len(line) THEN Append(values, current)
  ELSE IF line[i + 1] = Q
    THEN IF inQuotes /\ i + 2 <= Len(line) /\ line[i + 2] = Q
           THEN ParseLine(line, i + 2, Append(current, Q), inQuotes, values)
           ELSE ParseLine(line, i + 1, current, ~inQuotes, values)
  ELSE IF line[i + 1] = Delimiter /\ ~inQuotes
    THEN ParseLine(line, i + 1, <<>>, inQuotes, Append(values, current))
  ELSE ParseLine(line, i + 1, Append(current, line[i + 1]), inQuotes, values)

\* the text without the white space around it, and without leading zeros
Trimmed(text) ==
  SelectSeq(text, LAMBDA c : c \notin {" ", CR, NL, "\t"})
\* Number(value) is a number: nothing but digits between white space (the
\* characters of the model hold no sign, point or exponent), or nothing
IsNumber(value) ==
  /\ \A i \in 1..Len(value) : value[i] \in Digits \cup {" ", CR, NL, "\t"}
  /\ \A i, j \in 1..Len(value) :
       (i < j /\ value[i] \in Digits /\ value[j] \in Digits) =>
         \A k \in i..j : value[k] \in Digits
\* the value of a cell of a data line
Typed(value) ==
  IF IsNumber(value) /\ value # <<>>
    THEN Num(IF Trimmed(value) = <<>> THEN <<"0">> ELSE Trimmed(value))
  ELSE IF value = WordTrue THEN True
  ELSE IF value = WordFalse THEN False
  ELSE IF value = <<>> \/ value = WordNull THEN Null
  ELSE Str(value)

\* parseCsv(csv, {hasHeaders: true}) with the default delimiter
ParseCsv(csv) ==
  Let(SelectSeq(SplitLines(csv, <<>>), KeptLine), LAMBDA lines :
    IF Len(lines) = 0 THEN [headers |-> <<>>, data |-> <<>>]
    ELSE [headers |-> ParseLine(lines[1], 0, <<>>, FALSE, <<>>),
          data |-> [r \in 1..(Len(lines) - 1) |->
                      Let(ParseLine(lines[r + 1], 0, <<>>, FALSE, <<>>), LAMBDA row :
                        [i \in 1..Len(row) |-> Typed(row[i])])]])

\* importFromCsv(csv): the field names and the rates
ImportFromCsv(csv) ==
  [fields |-> ParseCsv(csv).headers, rates |-> ParseCsv(csv).data]

\* the cards exported: one or two fields, up to MaxRows rates
CsvFieldLists == {<<>>, <<<<"p">>>>, <<<<"p">>, <<"n", " ", "m">>>>}
FirstValues ==
  {Str(<<"4">>), Str(<<"a", ",", "b">>), Str(<<"a", Q, "b">>), Str(<<"a", NL, "b">>),
   Str(<<"#", "a">>), Str(<<>>), Num(<<"4">>), True, Null}
SecondValues == {Str(<<"U", "K">>), False, Null}
CsvEntries ==
  {<<v>> : v \in FirstValues} \cup {<<v, w>> : v \in FirstValues, w \in SecondValues}
CsvCards ==
  {c \in [fields : CsvFieldLists,
          rates : UNION {[1..n -> CsvEntries] : n \in 0..MaxRows}] :
     \A r \in 1..Len(c.rates) : Len(c.rates[r]) = Len(c.fields)}

\* util = exportCardToCsv(card)
ExportCardToCsvStep ==
  \E card \in CsvCards :
    /\ util = NoUtil
    /\ util' = [fn |-> "exportCardToCsv", card |-> card,
                result |-> ExportCardToCsv(card)]
    /\ UNCHANGED <<docs, keys, clock, certs, pemIo>>

\* util = importFromCsv(csv) for the text just exported
ImportFromCsvStep ==
  /\ util.fn = "exportCardToCsv"
  /\ util.result.ok
  /\ util' = [fn |-> "importFromCsv", card |-> util.card, csv |-> util.result.csv,
              result |-> ImportFromCsv(util.result.csv)]
  /\ UNCHANGED <<docs, keys, clock, certs, pemIo>>

NextCsv == ExportCardToCsvStep \/ ImportFromCsvStep \/ DropResult

SpecCsv == InitLib /\ [][NextCsv]_vars

\* C27: importing the exported text of a card with at least one field
\* gives fields of the same names in the same order and as many rate rows
\* as the card has, whatever strings, numbers, booleans and nulls the
\* rates hold.
C27_Original ==
  util.fn = "importFromCsv" =>
    /\ util.result.fields = util.card.fields
    /\ Len(util.result.rates) = Len(util.card.rates)

(***************************************************************************)
(* The caller changes its document while a call is suspended               *)
(***************************************************************************)
\* doc.name = ..., doc.metadata.checksum = ..., doc.metadata.signature = ...
\* and, for a signature held as an object, doc.metadata.signature.signature
\* = ... and doc.metadata.signature.algorithm = ...
CallerEdits ==
  {<<"document", "name", Str(<<"Tampered">>)>>,
   <<"metadata", "checksum", Str(<<"abc123">>)>>,
   <<"metadata", "signature", Str(<<"xyz789">>)>>,
   <<"record", "signature", Str(<<"!!!">>)>>,
   <<"record", "algorithm", Str(<<"ES256">>)>>}
\* the object of the caller's document an edit writes to, 0 for none
TargetOf(h, edit) ==
  CASE edit[1] = "document" -> CallerDoc
    [] edit[1] = "metadata" -> MetadataAt(h, CallerDoc)
    [] OTHER -> SignatureAt(h, CallerDoc)

\* the caller writes a property of its document while a call is suspended
CallerEdit ==
  \E edit \in CallerEdits :
    /\ \E i \in 1..Len(calls) : ~calls[i].done
    /\ tampers < MaxTampers
    /\ TargetOf(heap, edit) # 0
    /\ heap' = [heap EXCEPT ![TargetOf(heap, edit)] = SetTop(@, edit[2], edit[3])]
    /\ doc' = Load(heap', CallerDoc)
    /\ doc' # doc
    /\ tampers' = tampers + 1
    /\ UNCHANGED <<lib, ref, origin, keys, canon, sumRes, sigRes, signer, atob, calls, last>>

\* the documents the calls are made on: plain, with a checksum, signed, and
\* signed with the signature record held as an object
SignedByCallKey ==
  SignDocument(Obj(BaseEntries), NativeArg(CallKey.privateKey), CallAlgorithm,
               NoOptions, "n1", Now, TRUE).v
SuspendDocs ==
  {Obj(BaseEntries),
   AddChecksum(Obj(BaseEntries)).v,
   SignedByCallKey,
   SetNested(SignedByCallKey, "metadata", "signature", StoredRecord(SignedByCallKey).v)}
SuspendOps == {"addChecksum", "verifyChecksum", "signDocument", "verifySignature"}

InitSuspend == InitCallsOn(SuspendDocs)
NextSuspend == StartCallOf(SuspendOps) \/ FinishCall \/ CallerEdit
SpecSuspend == InitSuspend /\ [][NextSuspend]_vars

\* C28: a call of addChecksum, verifyChecksum, signDocument or
\* verifySignature returns what the operation returns for the document as
\* it was when the call was made, whatever the caller writes to the
\* document while the call is suspended; the document signDocument returns
\* verifies.
C28_Original ==
  \A i \in 1..Len(calls) :
    (calls[i].done /\ calls[i].op \in SuspendOps) =>
      /\ Outcome(calls[i]) = Alone(calls[i], i)
      /\ calls[i].op = "signDocument" =>
           VerifySignature(calls[i].returned, NativeArg(CallKey.publicKey), atob).valid

(***************************************************************************)
(* A signed document replaced by a party with a key pair of its own        *)
(***************************************************************************)
\* The first key pair is the signer's, the second the other party's.  The
\* signer signs a document; the other party changes its content and signs
\* the result with the second pair, embedding the second public key.
Signer == 1
Replacer == 2
NoKeyGiven == {NoKeyArg}
AnyEmbedding == {0, 1, 2}

SignAsSigner ==
  /\ ~Protected
  /\ SignDocumentStep(AnyEmbedding, OneNonce, Defaults)
  /\ signer'.idx = Signer

SignAsReplacer ==
  /\ origin = "signDocument" /\ signer.idx = Signer
  /\ tampers > 0
  /\ SignDocumentStep(AnyEmbedding, OneNonce, Defaults)
  /\ signer'.idx = Replacer /\ signer'.embedded = Replacer

NextReplace ==
  \/ GenerateKeyPairStep(TwoFamilies)
  \/ SignAsSigner
  \/ Protected /\ SetName
  \/ Protected /\ SetCurrency
  \/ SignAsReplacer
  \/ VerifySignatureStep(ObjectOnly, NoKeyGiven)

SpecReplace == InitVerify /\ [][NextReplace]_vars

\* the document is the one the second party made and signed
Replaced == origin = "signDocument" /\ signer.idx = Replacer /\ doc = ref

\* C29: a document whose content was changed after signing and which was
\* signed again by another party with its own key pair, its own public key
\* embedded, verifies as valid when no key is passed and when the other
\* party's key is passed; it is rejected when the first signer's public key
\* is passed.
C29_SelfConsistency ==
  (sigRes.done /\ Replaced) =>
    /\ sigRes.key = NoKeyArg => sigRes.valid
    /\ sigRes.key \in PublicArgs(Replacer) => sigRes.valid
    /\ sigRes.key \in PublicArgs(Signer) => ~sigRes.valid

\* the replaced document, which went into the second signing with the
\* first signer's signature on it, verified as valid without a key
C29_Witness ==
  /\ sigRes.done /\ Replaced
  /\ sigRes.key = NoKeyArg
  /\ sigRes.valid
  /\ last.op = "signDocument"
  /\ Truthy(StoredSignature(last.input))
  /\ Content(last.input) = Content(doc)
  /\ ~VerifySignature(last.input, NativeArg(KeyPairOf(Signer).publicKey), atob).valid
  /\ ~VerifySignature(doc, NativeArg(KeyPairOf(Signer).publicKey), atob).valid

(***************************************************************************)
(* The descriptive fields of the signature record                          *)
(***************************************************************************)
\* options = { keyId: 'key-123' }
WithKeyId == {[NoOptions EXCEPT !.keyId = Str(<<"key-123">>)]}
Descriptive == {"timestamp", "keyId", "publicKey"}
OtherValue(field) ==
  CASE field = "timestamp" -> Str(<<"1999-12-31T23:59:59.000Z">>)
    [] field = "keyId" -> Str(<<"key-999">>)
    [] OTHER -> Str(BadPem)

\* signed.metadata.signature = JSON.stringify(info) after info[field] was
\* given another value or deleted, for a field the record has
EditDescription ==
  \E field \in Descriptive, remove \in BOOLEAN :
    /\ origin = "signDocument"
    /\ StoredRecord(doc).ok /\ StoredRecord(doc).v.k = "obj"
    /\ Get(StoredRecord(doc).v, field) # Undefined
    /\ Edited(SetNested(doc, "metadata", "signature",
         Str(JsonStringify(
           IF remove THEN Delete(StoredRecord(doc).v, field)
           ELSE Obj(SetEntry(StoredRecord(doc).v.e, field, OtherValue(field)))))))

NextDescribe ==
  \/ GenerateKeyPairStep(TwoFamilies)
  \/ (~Protected /\ SignDocumentStep(EmbeddedKeys, OneNonce, WithKeyId))
  \/ EditDescription
  \/ VerifySignatureStep(ObjectOnly, NoKeyGiven)

SpecDescribe == InitVerify /\ [][NextDescribe]_vars

\* the document is as signDocument returned it but for the descriptive
\* fields of its signature record
OnlyDescriptionEdited ==
  /\ origin = "signDocument"
  /\ Content(doc) = Content(ref)
  /\ StoredRecord(doc).ok /\ StoredRecord(doc).v.k = "obj"
  /\ Get(StoredRecord(doc).v, "algorithm") = Get(StoredRecord(ref).v, "algorithm")
  /\ Get(StoredRecord(doc).v, "signature") = Get(StoredRecord(ref).v, "signature")
SameEmbeddedKey ==
  Get(StoredRecord(doc).v, "publicKey") = Get(StoredRecord(ref).v, "publicKey")

\* C30: for a signed document whose signature record had its timestamp,
\* keyId or embedded publicKey changed or removed, verifySignature with the
\* signer's public key as argument returns valid = true, and so does a call
\* without a key when the signer's embedded publicKey is untouched; the
\* signatureInfo returned is the record as it now stands.
C30_RecordNotCovered ==
  (sigRes.done /\ OnlyDescriptionEdited) =>
    /\ sigRes.key \in PublicArgs(signer.idx) =>
         sigRes.valid /\ sigRes.info = StoredRecord(doc).v
    /\ (sigRes.key = NoKeyArg /\ signer.embedded = signer.idx /\ SameEmbeddedKey) =>
         sigRes.valid /\ sigRes.info = StoredRecord(doc).v

\* a verification that returned valid = true and a record that differs
\* from the one signDocument wrote
C30_Witness ==
  /\ sigRes.done /\ OnlyDescriptionEdited
  /\ sigRes.valid
  /\ sigRes.info # StoredRecord(ref).v
  /\ sigRes.info = StoredRecord(doc).v

====
